---- MODULE Spec2Model ----
(***************************************************************************)
(* Model of the advanced multi-asset worker (src/src/trader/worker.js,     *)
(* class AdvancedWorker) and of the decision engines it drives:            *)
(* LockDetector, LeaderTracker, RollingCounter/RollingAverage,             *)
(* OBICalculator, Guardrails and the ShadowExchange.                       *)
(*                                                                         *)
(* Units.  Prices are integers in cents (0.60 -> 60).  Position costs are  *)
(* cents (price * shares).  The exchange balance is kept in hundredths of  *)
(* a cent so that the 2% taker fee is exact.  OBI values are hundredths    *)
(* (-0.30 -> -30).  Time is counted in units of 90 s (the rolling window)   *)
(* and timestamps are kept as ages (now - timestamp).                      *)
(***************************************************************************)
EXTENDS Integers, Sequences, FiniteSets, TLC

Null == "null"
Infinity == 1000000

Min(a, b) == IF a <= b THEN a ELSE b
Max(a, b) == IF a >= b THEN a ELSE b
Abs(a) == IF a < 0 THEN -a ELSE a
\* Math.ceil(n / d) for d > 0
CeilDiv(n, d) == IF n >= 0 THEN (n + d - 1) \div d ELSE -((-n) \div d)

\* F applied to the value of v, v being computed once
Bind(v, F(_)) == CHOOSE y \in {F(x) : x \in {v}} : TRUE

(***************************************************************************)
(* Program constants                                                       *)
(***************************************************************************)
ENTRY_PRICE_YES == 60
ENTRY_PRICE_NO == 40
ENTRY_SIZE == 10
LADDER_LEVELS == <<38, 36, 34, 32, 30>>
LADDER_SIZE == 5
MAX_GTC_ORDERS_PER_ASSET == 20
MAX_PAIR_COST == 100
PAIR_COST_BUFFER == 2
ENDGAME_SECONDS == 10
ENDGAME_PRICE == 92
MAX_SHARES_PER_ASSET == 50
MAX_SPEND_PER_ASSET == 2500
WINDOW_SEC == 900
DEFAULT_PRICE == 50
RECOVERY_DEFICIT_MIN == 500
RECOVERY_BUFFER == 2
RECOVERY_CEILING == 50
RECOVERY_MAX_SIZE == 10
RECOVERY_PRICE_BUMP == 2
ENDGAME_MAX_SHARES == 6
TAKER_FEE_PCT == 2
START_BALANCE == 1000000

\* Guardrails CONFIG
RHR_THRESHOLD_PCT == 10
OBI_BLOCK_THRESHOLD == -30
FLIP_SKIP_COUNT == 2
FLIP_RECOVERY_COUNT == 3
MIN_STABILITY == 60
MIN_SPREAD == 0
MAX_SPREAD == 50
GUARD_MAX_PAIR_COST == 99
ARMED_STABILITY == 70

\* the 90000 ms rolling window of the trackers is one time unit
WindowUnits == 1

(***************************************************************************)
(* Bounds of the model                                                     *)
(***************************************************************************)
MaxFlips == 1
MaxHist == 3

(***************************************************************************)
(* RollingCounter (src/src/data/rolling_average.js).  events is the list   *)
(* of event ages, oldest first.                                            *)
(***************************************************************************)
RC_cleanup(events) == SelectSeq(events, LAMBDA age : age <= WindowUnits)
RC_record(events) == RC_cleanup(Append(events, 0))
RC_getCount(events) == Len(RC_cleanup(events))
RC_reset == << >>
\* the clock advances by d units: every stored timestamp gets d older.  The events
\* that left the window are dropped at once: every method starts with cleanup(),
\* so the program never sees them again
AgeBy(events, d) == RC_cleanup([i \in DOMAIN events |-> events[i] + d])

(***************************************************************************)
(* LockDetector (src/unnamed/part_012)                                     *)
(***************************************************************************)
ZeroPosition == [yesShares |-> 0, yesCost |-> 0, noShares |-> 0, noCost |-> 0]

\* a nullable object is a sequence of length 0 (null) or 1
LockDetectorInit == [locked |-> FALSE, lockTimestamp |-> Null, lockDetails |-> << >>]

calculatePayoff(position, winner) ==
    LET totalCost == position.yesCost + position.noCost
    IN  IF winner = "YES" THEN position.yesShares * 100 - totalCost
                          ELSE position.noShares * 100 - totalCost

\* mutant of analyzePosition: a side with zero profit counts for the dual lock
analyzePosition_breakeven(position) ==
    LET totalCost == position.yesCost + position.noCost
        pnlIfYesWins == calculatePayoff(position, "YES")
        pnlIfNoWins == calculatePayoff(position, "NO")
        pairedShares == Min(position.yesShares, position.noShares)
    IN  [ totalCost |-> totalCost,
          totalShares |-> position.yesShares + position.noShares,
          pairCost |-> IF pairedShares > 0 THEN <<totalCost, pairedShares>> ELSE << >>,
          pnlIfYesWins |-> pnlIfYesWins,
          pnlIfNoWins |-> pnlIfNoWins,
          isDualLock |-> pnlIfYesWins >= 0 /\ pnlIfNoWins >= 0,
          isBreakeven |-> pnlIfYesWins >= 0 /\ pnlIfNoWins >= 0,
          yesDeficit |-> IF pnlIfYesWins < 0 THEN Abs(pnlIfYesWins) ELSE 0,
          noDeficit |-> IF pnlIfNoWins < 0 THEN Abs(pnlIfNoWins) ELSE 0,
          needsRecovery |-> pnlIfYesWins < 0 \/ pnlIfNoWins < 0,
          recoverySide |-> IF pnlIfYesWins < pnlIfNoWins THEN "YES" ELSE "NO" ]

analyzePosition(position) ==
    LET totalCost == position.yesCost + position.noCost
        pnlIfYesWins == calculatePayoff(position, "YES")
        pnlIfNoWins == calculatePayoff(position, "NO")
        pairedShares == Min(position.yesShares, position.noShares)
    IN  [ totalCost |-> totalCost,
          totalShares |-> position.yesShares + position.noShares,
          pairCost |-> IF pairedShares > 0 THEN <<totalCost, pairedShares>> ELSE << >>,
          pnlIfYesWins |-> pnlIfYesWins,
          pnlIfNoWins |-> pnlIfNoWins,
          isDualLock |-> pnlIfYesWins > 0 /\ pnlIfNoWins > 0,
          isBreakeven |-> pnlIfYesWins >= 0 /\ pnlIfNoWins >= 0,
          yesDeficit |-> IF pnlIfYesWins < 0 THEN Abs(pnlIfYesWins) ELSE 0,
          noDeficit |-> IF pnlIfNoWins < 0 THEN Abs(pnlIfNoWins) ELSE 0,
          needsRecovery |-> pnlIfYesWins < 0 \/ pnlIfNoWins < 0,
          recoverySide |-> IF pnlIfYesWins < pnlIfNoWins THEN "YES" ELSE "NO" ]

\* mutant of checkLock: the lock follows the latest analysis instead of being sticky
checkLock_notSticky(det, position) ==
    LET analysis == analyzePosition(position)
        det2 == IF analysis.isDualLock
                THEN [locked |-> TRUE, lockTimestamp |-> "set",
                      lockDetails |-> <<[pnlIfYesWins |-> analysis.pnlIfYesWins,
                                        pnlIfNoWins |-> analysis.pnlIfNoWins,
                                        position |-> position]>>]
                ELSE [det EXCEPT !.locked = FALSE]
    IN  [det |-> det2, analysis |-> analysis, locked |-> det2.locked,
         lockTimestamp |-> det2.lockTimestamp]

\* checkLock(position): returns the new detector and the call's result
checkLock(det, position) ==
    LET analysis == analyzePosition(position)
        det2 == IF analysis.isDualLock /\ ~det.locked
                THEN [locked |-> TRUE, lockTimestamp |-> "set",
                      lockDetails |-> <<[pnlIfYesWins |-> analysis.pnlIfYesWins,
                                        pnlIfNoWins |-> analysis.pnlIfNoWins,
                                        position |-> position]>>]
                ELSE det
    IN  [det |-> det2, analysis |-> analysis, locked |-> det2.locked,
         lockTimestamp |-> det2.lockTimestamp]

\* mutant of calculateRecoveryShares: at a price of 1 or more the result is clamped
\* to a finite size
calculateRecoveryShares_clamped(deficit, currentPrice, buffer) ==
    IF deficit <= 0 THEN 0
    ELSE IF currentPrice >= 100 THEN RECOVERY_MAX_SIZE
    ELSE CeilDiv(deficit, 100 - currentPrice) + buffer

\* calculateRecoveryShares(deficit, currentPrice, buffer)
calculateRecoveryShares(deficit, currentPrice, buffer) ==
    IF deficit <= 0 THEN 0
    ELSE IF currentPrice >= 100 THEN Infinity
    ELSE CeilDiv(deficit, 100 - currentPrice) + buffer

LockDetector_reset == [locked |-> FALSE, lockTimestamp |-> Null, lockDetails |-> << >>]

(***************************************************************************)
(* LeaderTracker (src/unnamed/part_004)                                    *)
(***************************************************************************)
LeaderTrackerInit ==
    [currentLeader |-> Null, pendingFlip |-> Null, pendingFlipCount |-> 0,
     totalFlips |-> 0, flipCounter |-> << >>]

InstantLeader(priceYes, priceNo) == IF priceYes > priceNo THEN "YES" ELSE "NO"

\* mutant of update: an observation matching the leader keeps the pending candidate
LeaderTracker_update_keepPending(t, priceYes, priceNo) ==
    LET newLeader == InstantLeader(priceYes, priceNo)
        confirm == /\ t.currentLeader # Null
                   /\ newLeader # t.currentLeader
                   /\ t.pendingFlip = newLeader
                   /\ t.pendingFlipCount + 1 >= 2
        t2 == IF t.currentLeader = Null
                THEN [t EXCEPT !.currentLeader = newLeader]
              ELSE IF newLeader # t.currentLeader
                THEN IF t.pendingFlip = newLeader
                       THEN IF confirm
                              THEN [t EXCEPT !.currentLeader = newLeader,
                                             !.flipCounter = RC_record(t.flipCounter),
                                             !.totalFlips = t.totalFlips + 1,
                                             !.pendingFlip = Null,
                                             !.pendingFlipCount = 0]
                              ELSE [t EXCEPT !.pendingFlipCount = t.pendingFlipCount + 1]
                       ELSE [t EXCEPT !.pendingFlip = newLeader, !.pendingFlipCount = 1]
              ELSE t
        t3 == [t2 EXCEPT !.flipCounter = RC_cleanup(t2.flipCounter)]
    IN  [trk |-> t3,
         leader |-> t3.currentLeader, flipped |-> confirm,
         flipCount |-> Len(t3.flipCounter), totalFlips |-> t3.totalFlips,
         priceYes |-> priceYes, priceNo |-> priceNo,
         spread |-> Abs(priceYes - priceNo)]

\* mutant of update: a single opposite observation already confirms the flip
LeaderTracker_update_noDebounce(t, priceYes, priceNo) ==
    LET newLeader == InstantLeader(priceYes, priceNo)
        confirm == /\ t.currentLeader # Null
                   /\ newLeader # t.currentLeader
        t2 == IF t.currentLeader = Null
                THEN [t EXCEPT !.currentLeader = newLeader]
              ELSE IF confirm
                THEN [t EXCEPT !.currentLeader = newLeader,
                               !.flipCounter = RC_record(t.flipCounter),
                               !.totalFlips = t.totalFlips + 1,
                               !.pendingFlip = Null,
                               !.pendingFlipCount = 0]
              ELSE [t EXCEPT !.pendingFlip = Null, !.pendingFlipCount = 0]
        t3 == [t2 EXCEPT !.flipCounter = RC_cleanup(t2.flipCounter)]
    IN  [trk |-> t3,
         leader |-> t3.currentLeader, flipped |-> confirm,
         flipCount |-> Len(t3.flipCounter), totalFlips |-> t3.totalFlips,
         priceYes |-> priceYes, priceNo |-> priceNo,
         spread |-> Abs(priceYes - priceNo)]

\* update(priceYes, priceNo): returns the new tracker and the call's result
\* mutant of update: a confirmed flip leaves the pending candidate in place
LeaderTracker_update_stalePending(t, priceYes, priceNo) ==
    LET newLeader == InstantLeader(priceYes, priceNo)
        confirm == /\ t.currentLeader # Null
                   /\ newLeader # t.currentLeader
                   /\ t.pendingFlip = newLeader
                   /\ t.pendingFlipCount + 1 >= 2
        t2 == IF t.currentLeader = Null
                THEN [t EXCEPT !.currentLeader = newLeader]
              ELSE IF newLeader # t.currentLeader
                THEN IF t.pendingFlip = newLeader
                       THEN IF confirm
                              THEN [t EXCEPT !.currentLeader = newLeader,
                                             !.flipCounter = RC_record(t.flipCounter),
                                             !.totalFlips = t.totalFlips + 1,
                                             !.pendingFlipCount = t.pendingFlipCount + 1]
                              ELSE [t EXCEPT !.pendingFlipCount = t.pendingFlipCount + 1]
                       ELSE [t EXCEPT !.pendingFlip = newLeader, !.pendingFlipCount = 1]
              ELSE [t EXCEPT !.pendingFlip = Null, !.pendingFlipCount = 0]
        t3 == [t2 EXCEPT !.flipCounter = RC_cleanup(t2.flipCounter)]
    IN  [trk |-> t3,
         leader |-> t3.currentLeader, flipped |-> confirm,
         flipCount |-> Len(t3.flipCounter), totalFlips |-> t3.totalFlips,
         priceYes |-> priceYes, priceNo |-> priceNo,
         spread |-> Abs(priceYes - priceNo)]

LeaderTracker_update(t, priceYes, priceNo) ==
    LET newLeader == InstantLeader(priceYes, priceNo)
        confirm == /\ t.currentLeader # Null
                   /\ newLeader # t.currentLeader
                   /\ t.pendingFlip = newLeader
                   /\ t.pendingFlipCount + 1 >= 2
        t2 == IF t.currentLeader = Null
                THEN [t EXCEPT !.currentLeader = newLeader]
              ELSE IF newLeader # t.currentLeader
                THEN IF t.pendingFlip = newLeader
                       THEN IF confirm
                              THEN [t EXCEPT !.currentLeader = newLeader,
                                             !.flipCounter = RC_record(t.flipCounter),
                                             !.totalFlips = t.totalFlips + 1,
                                             !.pendingFlip = Null,
                                             !.pendingFlipCount = 0]
                              ELSE [t EXCEPT !.pendingFlipCount = t.pendingFlipCount + 1]
                       ELSE [t EXCEPT !.pendingFlip = newLeader, !.pendingFlipCount = 1]
              ELSE [t EXCEPT !.pendingFlip = Null, !.pendingFlipCount = 0]
        \* getCount() in the return statement runs cleanup()
        t3 == [t2 EXCEPT !.flipCounter = RC_cleanup(t2.flipCounter)]
    IN  [trk |-> t3,
         leader |-> t3.currentLeader, flipped |-> confirm,
         flipCount |-> Len(t3.flipCounter), totalFlips |-> t3.totalFlips,
         priceYes |-> priceYes, priceNo |-> priceNo,
         spread |-> Abs(priceYes - priceNo)]

\* mutant of resetForNewWindow: the leader is forgotten as well
LeaderTracker_resetForNewWindow_forgetLeader(t) ==
    [t EXCEPT !.flipCounter = RC_reset, !.totalFlips = 0,
              !.pendingFlip = Null, !.pendingFlipCount = 0, !.currentLeader = Null]

LeaderTracker_resetForNewWindow(t) ==
    [t EXCEPT !.flipCounter = RC_reset, !.totalFlips = 0,
              !.pendingFlip = Null, !.pendingFlipCount = 0]

LeaderTracker_getLeader(t) == t.currentLeader

(***************************************************************************)
(* RollingAverage (src/src/data/rolling_average.js).  samples is the list  *)
(* of [age, value], oldest first.                                          *)
(***************************************************************************)
RECURSIVE SumValues(_)
SumValues(samples) ==
    IF samples = << >> THEN 0 ELSE Head(samples).value + SumValues(Tail(samples))

RA_cleanup(samples) == SelectSeq(samples, LAMBDA x : x.age <= WindowUnits)
RA_add(samples, v) == RA_cleanup(Append(samples, [age |-> 0, value |-> v]))
\* getAverage(): << >> for null, else <<sum, count>> standing for sum / count
RA_getAverage(samples) ==
    LET kept == RA_cleanup(samples)
    IN  IF Len(kept) = 0 THEN << >> ELSE <<SumValues(kept), Len(kept)>>
\* getLatest(): << >> for null, else <<value>>
RA_getLatest(samples) ==
    LET kept == RA_cleanup(samples)
    IN  IF Len(kept) = 0 THEN << >> ELSE <<kept[Len(kept)].value>>
RA_getCount(samples) == Len(RA_cleanup(samples))
\* the clock advances by d units; samples that left the window are dropped at once,
\* as every method starts with cleanup()
AgeSamples(samples, d) ==
    RA_cleanup([i \in DOMAIN samples |-> [samples[i] EXCEPT !.age = @ + d]])

(***************************************************************************)
(* OBICalculator (src/src/data/obi_calculator.js).  Samples of obiYes and  *)
(* obiNo are hundredths; samples of obiCombined are kept doubled           *)
(* (two-hundredths) so that the halving in the code stays exact.           *)
(***************************************************************************)
TOP_N == 10

OBICalculatorInit == [obiYes |-> << >>, obiNo |-> << >>, obiCombined |-> << >>]

RECURSIVE SumSeq(_)
SumSeq(q) == IF q = << >> THEN 0 ELSE Head(q) + SumSeq(Tail(q))

\* (bidVolume - askVolume) / (bidVolume + askVolume); the books of the model
\* are chosen so that the quotient is a whole number of hundredths
calculateOBI(bidVolume, askVolume) ==
    LET total == bidVolume + askVolume
    IN  IF total = 0 THEN 0
        ELSE IF bidVolume >= askVolume THEN ((bidVolume - askVolume) * 100) \div total
        ELSE -(((askVolume - bidVolume) * 100) \div total)

\* a book is [ok, bids, asks]; ok = FALSE stands for null or a book without bids/asks
updateFromOrderbook(calc, book, side) ==
    IF ~book.ok THEN [calc |-> calc, added |-> FALSE]
    ELSE LET bidVol == SumSeq(SubSeq(book.bids, 1, Min(TOP_N, Len(book.bids))))
             askVol == SumSeq(SubSeq(book.asks, 1, Min(TOP_N, Len(book.asks))))
             obi == calculateOBI(bidVol, askVol)
             c1 == IF side = "YES" THEN [calc EXCEPT !.obiYes = RA_add(@, obi)]
                                   ELSE [calc EXCEPT !.obiNo = RA_add(@, obi)]
             latestYes == RA_getLatest(c1.obiYes)
             latestNo == RA_getLatest(c1.obiNo)
             yesObi == IF latestYes = << >> THEN 0 ELSE latestYes[1]
             noObi == IF latestNo = << >> THEN 0 ELSE latestNo[1]
         IN  [calc |-> [c1 EXCEPT !.obiCombined = RA_add(@, yesObi + noObi)],
              added |-> TRUE]

updateFromPrices(calc, priceYes, priceNo) ==
    LET yesImbalance == (priceYes - 50) * 2
        noImbalance == (priceNo - 50) * 2
    IN  [calc EXCEPT !.obiYes = RA_add(@, yesImbalance),
                     !.obiNo = RA_add(@, noImbalance),
                     !.obiCombined = RA_add(@, yesImbalance - noImbalance)]

\* getRollingOBI(side): <<sum, count>> standing for the average; null || 0 is <<0, 1>>
getRollingOBI(calc, side) ==
    LET avg == IF side = "YES" THEN RA_getAverage(calc.obiYes)
               ELSE IF side = "NO" THEN RA_getAverage(calc.obiNo)
               ELSE RA_getAverage(calc.obiCombined)
    IN  IF avg = << >> THEN <<0, 1>> ELSE avg

\* isBlocking(side, threshold)
isBlocking(calc, side, threshold) ==
    LET obi == getRollingOBI(calc, side)
    IN  obi[1] <= threshold * obi[2]

OBICalculator_reset == OBICalculatorInit

NoBook == [ok |-> FALSE, bids |-> << >>, asks |-> << >>]

\* updateOBIFromMarket(tokenIdYes, tokenIdNo, calculator).  books is what the two
\* fetchOrderBook calls give: [threw, yes, no]; prices is what the two
\* fetchClobPrice calls of the fallback give: [threw, yes, no], a price 0 standing
\* for a missing price.
updateOBIFromMarket(calc, hasYes, hasNo, books, prices) ==
    LET tryBooks == hasYes /\ hasNo /\ ~books.threw
        none == [calc |-> calc, added |-> FALSE]
    IN
    Bind(IF tryBooks THEN updateFromOrderbook(calc, books.yes, "YES") ELSE none, LAMBDA y :
    Bind(IF tryBooks THEN updateFromOrderbook(y.calc, books.no, "NO") ELSE none, LAMBDA n :
    IF tryBooks /\ y.added /\ n.added THEN n.calc
    ELSE IF prices.threw THEN n.calc
    ELSE updateFromPrices(n.calc,
                          IF prices.yes = 0 THEN DEFAULT_PRICE ELSE prices.yes,
                          IF prices.no = 0 THEN DEFAULT_PRICE ELSE prices.no)))

AgeOBI(calc, d) ==
    [obiYes |-> AgeSamples(calc.obiYes, d), obiNo |-> AgeSamples(calc.obiNo, d),
     obiCombined |-> AgeSamples(calc.obiCombined, d)]

(***************************************************************************)
(* Guardrails (src/src/utils/logger.js, second half)                       *)
(***************************************************************************)
checkRHR(elapsedSec, windowSec) ==
    [check |-> "RHR", passed |-> elapsedSec * 100 >= RHR_THRESHOLD_PCT * windowSec,
     mode |-> Null]

\* mutant of checkOBI: an OBI equal to the threshold does not block
checkOBI_strict(obi, side) ==
    LET blocking == obi[1] < OBI_BLOCK_THRESHOLD * obi[2]
    IN  [check |-> "OBI", passed |-> ~blocking, mode |-> Null]

\* obi is <<sum, count>>
checkOBI(obi, side) ==
    LET blocking == obi[1] <= OBI_BLOCK_THRESHOLD * obi[2]
    IN  [check |-> "OBI", passed |-> ~blocking, mode |-> Null]

\* mutant of checkFlips: held shares switch to RECOVERY from FLIP_SKIP_COUNT flips on
checkFlips_recoveryAtSkip(flipCount, shares) ==
    IF flipCount >= FLIP_SKIP_COUNT /\ shares = 0
      THEN [check |-> "FLIPS", passed |-> FALSE, mode |-> "SKIP"]
    ELSE IF flipCount >= FLIP_SKIP_COUNT /\ shares > 0
      THEN [check |-> "FLIPS", passed |-> TRUE, mode |-> "RECOVERY"]
    ELSE [check |-> "FLIPS", passed |-> TRUE, mode |-> "NORMAL"]

checkFlips(flipCount, shares) ==
    IF flipCount >= FLIP_SKIP_COUNT /\ shares = 0
      THEN [check |-> "FLIPS", passed |-> FALSE, mode |-> "SKIP"]
    ELSE IF flipCount >= FLIP_RECOVERY_COUNT /\ shares > 0
      THEN [check |-> "FLIPS", passed |-> TRUE, mode |-> "RECOVERY"]
    ELSE [check |-> "FLIPS", passed |-> TRUE, mode |-> "NORMAL"]

checkStability(stability) ==
    [check |-> "STABILITY", passed |-> stability >= MIN_STABILITY, mode |-> Null]

checkSpread(priceYes, priceNo) ==
    LET spread == Abs(priceYes - priceNo)
        tooNarrow == spread < MIN_SPREAD
        tooWide == spread > MAX_SPREAD
    IN  [check |-> "SPREAD", passed |-> ~tooNarrow /\ ~tooWide, mode |-> Null]

\* pairCost is << >> (null) or <<cost>>
checkPairCost(pairCost) ==
    IF pairCost = << >> THEN [check |-> "PAIR_COST", passed |-> TRUE, mode |-> Null]
    ELSE [check |-> "PAIR_COST", passed |-> pairCost[1] <= GUARD_MAX_PAIR_COST,
          mode |-> Null]

GuardNames == <<"foreman", "rhr", "obi", "flips", "stability", "spread", "pairCost">>

\* mutant of checkAll: only the first failing check is reported
checkAll_firstBlocker(in) ==
    LET results ==
            [foreman |-> [check |-> "FOREMAN", passed |-> in.foremanOrder = "START",
                          mode |-> Null],
             rhr |-> checkRHR(in.elapsedSec, in.windowSec),
             obi |-> checkOBI(in.obi, in.obiSide),
             flips |-> checkFlips(in.flipCount, in.shares),
             stability |-> checkStability(in.stability),
             spread |-> checkSpread(in.priceYes, in.priceNo),
             pairCost |-> checkPairCost(in.pairCost)]
        allPassed == \A k \in DOMAIN results : results[k].passed
        failing == SelectSeq(GuardNames, LAMBDA k : ~results[k].passed)
        blockers == IF failing = << >> THEN << >> ELSE <<Head(failing)>>
        mode == IF allPassed
                THEN (IF results.flips.mode = "RECOVERY" THEN "RECOVERY" ELSE "ENTRY_ALLOWED")
                ELSE "BLOCKED"
    IN  [allowed |-> allPassed, mode |-> mode, results |-> results, blockers |-> blockers]

checkAll(in) ==
    LET results ==
            [foreman |-> [check |-> "FOREMAN", passed |-> in.foremanOrder = "START",
                          mode |-> Null],
             rhr |-> checkRHR(in.elapsedSec, in.windowSec),
             obi |-> checkOBI(in.obi, in.obiSide),
             flips |-> checkFlips(in.flipCount, in.shares),
             stability |-> checkStability(in.stability),
             spread |-> checkSpread(in.priceYes, in.priceNo),
             pairCost |-> checkPairCost(in.pairCost)]
        allPassed == \A k \in DOMAIN results : results[k].passed
        blockers == SelectSeq(GuardNames, LAMBDA k : ~results[k].passed)
        mode == IF allPassed
                THEN (IF results.flips.mode = "RECOVERY" THEN "RECOVERY" ELSE "ENTRY_ALLOWED")
                ELSE "BLOCKED"
    IN  [allowed |-> allPassed, mode |-> mode, results |-> results, blockers |-> blockers]

(***************************************************************************)
(* ShadowExchange (src/unnamed/part_009).  A token is <<asset, window,      *)
(* side>>.  positions and priceCache are functions over the tokens seen.   *)
(* cacheFresh stands for now - lastPriceFetch < 5000.                      *)
(***************************************************************************)
ExchangeInit ==
    [positions |-> << >>, orders |-> << >>, balance |-> START_BALANCE,
     priceCache |-> << >>, cacheFresh |-> FALSE]

Put(f, k, v) == [x \in (DOMAIN f) \cup {k} |-> IF x = k THEN v ELSE f[x]]

\* fetchRealPrice(tokenId, side): fetch is what fetchClobPrice gives, [threw, price],
\* a price 0 standing for a missing price
fetchRealPrice(ex, key, fetch) ==
    IF key \in DOMAIN ex.priceCache /\ ex.cacheFresh
      THEN [price |-> ex.priceCache[key], ex |-> ex]
    ELSE IF fetch.threw
      THEN [price |-> DEFAULT_PRICE, ex |-> ex]
    ELSE LET price == IF fetch.price = 0 THEN DEFAULT_PRICE ELSE fetch.price
         IN  [price |-> price,
              ex |-> [ex EXCEPT !.priceCache = Put(@, key, price), !.cacheFresh = TRUE]]

\* executeFill(order, fillPrice) for a taker BUY; balance and cost in hundredths of a cent
executeFill(ex, order, fillPrice) ==
    LET baseCost == fillPrice * order.size * 100
        fee == fillPrice * order.size * TAKER_FEE_PCT
        totalCost == baseCost + fee
        old == IF order.tokenId \in DOMAIN ex.positions THEN ex.positions[order.tokenId]
               ELSE [size |-> 0, cost |-> 0]
    IN  [ex EXCEPT !.balance = @ - totalCost,
                   !.positions = Put(@, order.tokenId,
                                     [size |-> old.size + order.size,
                                      cost |-> old.cost + totalCost])]

\* placeOrder(order) for a BUY order: the new exchange and the result
placeOrder(ex, order, fetch) ==
    Bind(fetchRealPrice(ex, <<order.tokenId, order.side>>, fetch), LAMBDA f :
    LET marketPrice == f.price
    IN  IF order.type = "FOK" \/ order.type = "IOC"
          THEN IF order.price >= marketPrice
                 THEN [ex |-> executeFill(f.ex, order, marketPrice),
                       status |-> "FILLED", fillPrice |-> marketPrice]
                 ELSE [ex |-> f.ex, status |-> "KILLED", fillPrice |-> 0]
          ELSE [ex |-> [f.ex EXCEPT !.orders = Append(@, order)],
                status |-> "OPEN", fillPrice |-> 0])

\* the price cache with the clock explicit, in seconds: q is [priceCache,
\* lastPriceFetch]; hit tells whether the price came from the cache
PRICE_CACHE_SEC == 5

QuotesInit == [priceCache |-> << >>, lastPriceFetch |-> 0]

fetchRealPriceAt(q, now, key, fetch) ==
    IF key \in DOMAIN q.priceCache /\ now - q.lastPriceFetch < PRICE_CACHE_SEC
      THEN [price |-> q.priceCache[key], q |-> q, hit |-> TRUE]
    ELSE IF fetch.threw
      THEN [price |-> DEFAULT_PRICE, q |-> q, hit |-> FALSE]
    ELSE LET price == IF fetch.price = 0 THEN DEFAULT_PRICE ELSE fetch.price
         IN  [price |-> price,
              q |-> [priceCache |-> Put(q.priceCache, key, price), lastPriceFetch |-> now],
              hit |-> FALSE]

(***************************************************************************)
(* AdvancedWorker (src/src/trader/worker.js, third module of the file)     *)
(***************************************************************************)
DefaultCaps == [maxShares |-> MAX_SHARES_PER_ASSET, maxNotional |-> MAX_SPEND_PER_ASSET,
                maxOpenOrders |-> MAX_GTC_ORDERS_PER_ASSET]

\* getRiskCaps(orders): a missing cap is 0 in the packet and falls back to CONFIG
getRiskCaps(risk_caps) ==
    [maxShares |-> IF risk_caps.max_shares_per_asset = 0 THEN MAX_SHARES_PER_ASSET
                   ELSE risk_caps.max_shares_per_asset,
     maxNotional |-> IF risk_caps.max_notional_usd_per_asset = 0 THEN MAX_SPEND_PER_ASSET
                     ELSE risk_caps.max_notional_usd_per_asset,
     maxOpenOrders |-> IF risk_caps.max_open_orders_per_asset = 0
                       THEN MAX_GTC_ORDERS_PER_ASSET
                       ELSE risk_caps.max_open_orders_per_asset]

\* mutant of canPlaceOrder: a projection equal to a cap is refused
canPlaceOrder_inclusive(s, price, size, caps) ==
    LET currentShares == s.position.yesShares + s.position.noShares
        currentCost == s.position.yesCost + s.position.noCost
        orderCost == price * size
    IN  IF currentShares + size >= caps.maxShares THEN FALSE
        ELSE IF currentCost + orderCost >= caps.maxNotional THEN FALSE
        ELSE TRUE

\* mutant of canPlaceOrder: only the notional cap is looked at
canPlaceOrder_notionalOnly(s, price, size, caps) ==
    LET currentCost == s.position.yesCost + s.position.noCost
        orderCost == price * size
    IN  IF currentCost + orderCost > caps.maxNotional THEN FALSE
        ELSE TRUE

canPlaceOrder(s, price, size, caps) ==
    LET currentShares == s.position.yesShares + s.position.noShares
        currentCost == s.position.yesCost + s.position.noCost
        orderCost == price * size
    IN  IF currentShares + size > caps.maxShares THEN FALSE
        ELSE IF currentCost + orderCost > caps.maxNotional THEN FALSE
        ELSE TRUE

\* costs are scaled by 100 so that the 2% fee surcharge is exact
canAddPairPosition(s, side, price, size, orderType) ==
    LET feePct == IF orderType = "FOK" \/ orderType = "IOC" THEN TAKER_FEE_PCT ELSE 0
        addedCost == price * size * (100 + feePct)
        nextYesShares == IF side = "YES" THEN s.position.yesShares + size
                         ELSE s.position.yesShares
        nextNoShares == IF side = "NO" THEN s.position.noShares + size
                        ELSE s.position.noShares
        nextYesCost == IF side = "YES" THEN s.position.yesCost * 100 + addedCost
                       ELSE s.position.yesCost * 100
        nextNoCost == IF side = "NO" THEN s.position.noCost * 100 + addedCost
                      ELSE s.position.noCost * 100
        pairedShares == Min(nextYesShares, nextNoShares)
        maxAllowed == MAX_PAIR_COST + PAIR_COST_BUFFER
    IN  IF pairedShares <= 0 THEN TRUE
        ELSE IF nextYesCost + nextNoCost > maxAllowed * 100 * pairedShares THEN FALSE
        ELSE TRUE

\* countOpenGtcOrders(tokenIds): tokens is the set of the non-null token ids
countOpenGtcOrders(ex, tokens) ==
    IF tokens = {} THEN 0
    ELSE Len(SelectSeq(ex.orders, LAMBDA o : o.type = "GTC" /\ o.tokenId \in tokens))

AssetStateInit ==
    [state |-> "IDLE",
     leaderTracker |-> LeaderTrackerInit,
     obiCalculator |-> OBICalculatorInit,
     lockDetector |-> LockDetectorInit,
     lastWindowId |-> 0,
     entryDone |-> FALSE,
     ladderDone |-> FALSE,
     position |-> ZeroPosition]

Token(asset, windowId, side) == <<asset, windowId, side>>

\* the token ids of an orders entry that are present
EntryTokens(c) ==
    (IF c.entry.up THEN {Token(c.asset, c.window.id, "YES")} ELSE {})
    \cup (IF c.entry.down THEN {Token(c.asset, c.window.id, "NO")} ELSE {})

\* mutant of the position update after a fill: the cost of the fill is taken off
AddFill_refund(position, side, shares, cost) ==
    IF side = "YES"
      THEN [position EXCEPT !.yesShares = @ + shares, !.yesCost = @ - cost]
      ELSE [position EXCEPT !.noShares = @ + shares, !.noCost = @ - cost]

AddFill(position, side, shares, cost) ==
    IF side = "YES"
      THEN [position EXCEPT !.yesShares = @ + shares, !.yesCost = @ + cost]
      ELSE [position EXCEPT !.noShares = @ + shares, !.noCost = @ + cost]

\* mutant of the window reset: the position survives the reset
WindowReset_keepPosition(s, windowId) ==
    [s EXCEPT !.state = "ARMED", !.entryDone = FALSE, !.ladderDone = FALSE,
              !.leaderTracker = LeaderTracker_resetForNewWindow(@),
              !.lockDetector = LockDetector_reset,
              !.lastWindowId = windowId]

\* processAsset, "Reset for new window"
\* mutant of the window reset: the costs are cleared, the share counts are kept
WindowReset_keepShares(s, windowId) ==
    [s EXCEPT !.state = "ARMED", !.entryDone = FALSE, !.ladderDone = FALSE,
              !.leaderTracker = LeaderTracker_resetForNewWindow(@),
              !.lockDetector = LockDetector_reset,
              !.lastWindowId = windowId,
              !.position = [@ EXCEPT !.yesCost = 0, !.noCost = 0]]

WindowReset(s, windowId) ==
    [s EXCEPT !.state = "ARMED", !.entryDone = FALSE, !.ladderDone = FALSE,
              !.leaderTracker = LeaderTracker_resetForNewWindow(@),
              !.lockDetector = LockDetector_reset,
              !.lastWindowId = windowId,
              !.position = ZeroPosition]

\* mutant of handleArmed: the asset leaves ARMED whatever checkAll says
handleArmed_always(s, c, leaderInfo) == [s EXCEPT !.state = "ENTRY"]

handleArmed(s, c, leaderInfo) ==
    LET check == checkAll([elapsedSec |-> c.window.elapsed_sec,
                           windowSec |-> WINDOW_SEC,
                           obi |-> getRollingOBI(s.obiCalculator, "YES"),
                           obiSide |-> "YES",
                           flipCount |-> leaderInfo.flipCount,
                           shares |-> s.position.yesShares + s.position.noShares,
                           stability |-> ARMED_STABILITY,
                           priceYes |-> leaderInfo.priceYes,
                           priceNo |-> leaderInfo.priceNo,
                           foremanOrder |-> "START",
                           pairCost |-> << >>])
    IN  IF check.allowed
          THEN IF check.mode = "RECOVERY" THEN [s EXCEPT !.state = "RECOVERY"]
               ELSE [s EXCEPT !.state = "ENTRY"]
          ELSE s

\* mutant of handleEntry: a killed entry order leaves the asset in ENTRY to retry
handleEntry_retry(s, ex, c) ==
    IF s.entryDone THEN [s |-> [s EXCEPT !.state = "LADDERING"], ex |-> ex, log |-> << >>]
    ELSE
    LET leader == LeaderTracker_getLeader(s.leaderTracker)
        hasToken == IF leader = "YES" THEN c.entry.up ELSE c.entry.down
        entryPrice == IF leader = "YES" THEN ENTRY_PRICE_YES ELSE ENTRY_PRICE_NO
        entrySide == IF leader = "YES" THEN "YES" ELSE "NO"
        done == [s EXCEPT !.entryDone = TRUE, !.state = "LADDERING"]
        order == [tokenId |-> Token(c.asset, c.window.id, entrySide), side |-> "BUY",
                  price |-> entryPrice, size |-> ENTRY_SIZE, type |-> "FOK"]
    IN  IF ~hasToken THEN [s |-> done, ex |-> ex, log |-> << >>]
        ELSE IF ~canPlaceOrder(s, entryPrice, ENTRY_SIZE, c.caps)
          THEN [s |-> done, ex |-> ex, log |-> << >>]
        ELSE IF ~canAddPairPosition(s, entrySide, entryPrice, ENTRY_SIZE, "FOK")
          THEN [s |-> done, ex |-> ex, log |-> << >>]
        ELSE Bind(placeOrder(ex, order, c.fetch), LAMBDA r :
             IF r.status = "FILLED"
               THEN [s |-> [done EXCEPT !.position =
                               AddFill(@, entrySide, ENTRY_SIZE, r.fillPrice * ENTRY_SIZE)],
                     ex |-> r.ex, log |-> <<order>>]
             ELSE [s |-> s, ex |-> r.ex, log |-> <<order>>])

handleEntry(s, ex, c) ==
    IF s.entryDone THEN [s |-> [s EXCEPT !.state = "LADDERING"], ex |-> ex, log |-> << >>]
    ELSE
    LET leader == LeaderTracker_getLeader(s.leaderTracker)
        hasToken == IF leader = "YES" THEN c.entry.up ELSE c.entry.down
        entryPrice == IF leader = "YES" THEN ENTRY_PRICE_YES ELSE ENTRY_PRICE_NO
        entrySide == IF leader = "YES" THEN "YES" ELSE "NO"
        done == [s EXCEPT !.entryDone = TRUE, !.state = "LADDERING"]
        order == [tokenId |-> Token(c.asset, c.window.id, entrySide), side |-> "BUY",
                  price |-> entryPrice, size |-> ENTRY_SIZE, type |-> "FOK"]
    IN  IF ~hasToken THEN [s |-> done, ex |-> ex, log |-> << >>]
        ELSE IF ~canPlaceOrder(s, entryPrice, ENTRY_SIZE, c.caps)
          THEN [s |-> done, ex |-> ex, log |-> << >>]
        ELSE IF ~canAddPairPosition(s, entrySide, entryPrice, ENTRY_SIZE, "FOK")
          THEN [s |-> done, ex |-> ex, log |-> << >>]
        ELSE Bind(placeOrder(ex, order, c.fetch), LAMBDA r :
             IF r.status = "FILLED"
               THEN [s |-> [done EXCEPT !.position =
                               AddFill(@, entrySide, ENTRY_SIZE, r.fillPrice * ENTRY_SIZE)],
                     ex |-> r.ex, log |-> <<order>>]
             ELSE [s |-> done, ex |-> r.ex, log |-> <<order>>])

\* mutant of the ladder loop: a level refused by canPlaceOrder ends the loop
RECURSIVE LadderLoop_abort(_, _, _, _, _, _)
LadderLoop_abort(i, s, ex, c, ladderSide, log) ==
    IF i > Len(LADDER_LEVELS) THEN [ex |-> ex, log |-> log]
    ELSE
    LET price == LADDER_LEVELS[i]
        order == [tokenId |-> Token(c.asset, c.window.id, ladderSide), side |-> "BUY",
                  price |-> price, size |-> LADDER_SIZE, type |-> "GTC"]
    IN  IF countOpenGtcOrders(ex, EntryTokens(c)) >= c.caps.maxOpenOrders
          THEN [ex |-> ex, log |-> log]
        ELSE IF ~canPlaceOrder(s, price, LADDER_SIZE, c.caps)
          THEN [ex |-> ex, log |-> log]
        ELSE IF ~canAddPairPosition(s, ladderSide, price, LADDER_SIZE, "GTC")
          THEN LadderLoop_abort(i + 1, s, ex, c, ladderSide, log)
        ELSE Bind(placeOrder(ex, order, c.fetch), LAMBDA r :
             LadderLoop_abort(i + 1, s, r.ex, c, ladderSide, Append(log, order)))

\* mutant of the ladder loop: the loop stops only above the open-order cap
RECURSIVE LadderLoop_overCap(_, _, _, _, _, _)
LadderLoop_overCap(i, s, ex, c, ladderSide, log) ==
    IF i > Len(LADDER_LEVELS) THEN [ex |-> ex, log |-> log]
    ELSE
    LET price == LADDER_LEVELS[i]
        order == [tokenId |-> Token(c.asset, c.window.id, ladderSide), side |-> "BUY",
                  price |-> price, size |-> LADDER_SIZE, type |-> "GTC"]
    IN  IF countOpenGtcOrders(ex, EntryTokens(c)) > c.caps.maxOpenOrders
          THEN [ex |-> ex, log |-> log]
        ELSE IF ~canPlaceOrder(s, price, LADDER_SIZE, c.caps)
          THEN LadderLoop_overCap(i + 1, s, ex, c, ladderSide, log)
        ELSE IF ~canAddPairPosition(s, ladderSide, price, LADDER_SIZE, "GTC")
          THEN LadderLoop_overCap(i + 1, s, ex, c, ladderSide, log)
        ELSE Bind(placeOrder(ex, order, c.fetch), LAMBDA r :
             LadderLoop_overCap(i + 1, s, r.ex, c, ladderSide, Append(log, order)))

\* the loop over CONFIG.LADDER_LEVELS of handleLaddering, from level i on
RECURSIVE LadderLoop(_, _, _, _, _, _)
LadderLoop(i, s, ex, c, ladderSide, log) ==
    IF i > Len(LADDER_LEVELS) THEN [ex |-> ex, log |-> log]
    ELSE
    LET price == LADDER_LEVELS[i]
        order == [tokenId |-> Token(c.asset, c.window.id, ladderSide), side |-> "BUY",
                  price |-> price, size |-> LADDER_SIZE, type |-> "GTC"]
    IN  IF countOpenGtcOrders(ex, EntryTokens(c)) >= c.caps.maxOpenOrders
          THEN [ex |-> ex, log |-> log]
        ELSE IF ~canPlaceOrder(s, price, LADDER_SIZE, c.caps)
          THEN LadderLoop(i + 1, s, ex, c, ladderSide, log)
        ELSE IF ~canAddPairPosition(s, ladderSide, price, LADDER_SIZE, "GTC")
          THEN LadderLoop(i + 1, s, ex, c, ladderSide, log)
        ELSE Bind(placeOrder(ex, order, c.fetch), LAMBDA r :
             LadderLoop(i + 1, s, r.ex, c, ladderSide, Append(log, order)))

\* mutant of handleLaddering: the asset stays in LADDERING and ladderDone stays unset
handleLaddering_stay(s, ex, c) ==
    IF s.ladderDone THEN [s |-> [s EXCEPT !.state = "LOCKING"], ex |-> ex, log |-> << >>]
    ELSE
    LET leader == LeaderTracker_getLeader(s.leaderTracker)
        ladderSide == IF leader = "YES" THEN "NO" ELSE "YES"
        hasToken == IF ladderSide = "YES" THEN c.entry.up ELSE c.entry.down
        done == [s EXCEPT !.ladderDone = TRUE, !.state = "LOCKING"]
    IN  IF ~hasToken THEN [s |-> done, ex |-> ex, log |-> << >>]
        ELSE Bind(LadderLoop(1, s, ex, c, ladderSide, << >>), LAMBDA l :
             [s |-> s, ex |-> l.ex, log |-> l.log])

handleLaddering(s, ex, c) ==
    IF s.ladderDone THEN [s |-> [s EXCEPT !.state = "LOCKING"], ex |-> ex, log |-> << >>]
    ELSE
    LET leader == LeaderTracker_getLeader(s.leaderTracker)
        ladderSide == IF leader = "YES" THEN "NO" ELSE "YES"
        hasToken == IF ladderSide = "YES" THEN c.entry.up ELSE c.entry.down
        done == [s EXCEPT !.ladderDone = TRUE, !.state = "LOCKING"]
    IN  IF ~hasToken THEN [s |-> done, ex |-> ex, log |-> << >>]
        ELSE Bind(LadderLoop(1, s, ex, c, ladderSide, << >>), LAMBDA l :
             [s |-> done, ex |-> l.ex, log |-> l.log])

\* mutant of handleLocking: the recovery threshold is compared with >= 0
handleLocking_eagerRecovery(s) ==
    Bind(checkLock(s.lockDetector, s.position), LAMBDA r :
    LET a == r.analysis
        deficit == IF a.recoverySide = "YES" THEN a.yesDeficit ELSE a.noDeficit
        s1 == [s EXCEPT !.lockDetector = r.det]
    IN  IF r.locked THEN [s1 EXCEPT !.state = "LOCKED"]
        ELSE IF a.needsRecovery /\ deficit >= 0 THEN [s1 EXCEPT !.state = "RECOVERY"]
        ELSE s1)

\* mutant of handleLocking: a detected lock leaves the asset in LOCKING
handleLocking_stayLocking(s) ==
    Bind(checkLock(s.lockDetector, s.position), LAMBDA r :
    LET a == r.analysis
        deficit == IF a.recoverySide = "YES" THEN a.yesDeficit ELSE a.noDeficit
        s1 == [s EXCEPT !.lockDetector = r.det]
    IN  IF r.locked THEN s1
        ELSE IF a.needsRecovery /\ deficit > RECOVERY_DEFICIT_MIN
          THEN [s1 EXCEPT !.state = "RECOVERY"]
        ELSE s1)

\* mutant of handleLocking: a position that needs recovery goes to ENDGAME
handleLocking_endgameUnlocked(s) ==
    Bind(checkLock(s.lockDetector, s.position), LAMBDA r :
    LET a == r.analysis
        deficit == IF a.recoverySide = "YES" THEN a.yesDeficit ELSE a.noDeficit
        s1 == [s EXCEPT !.lockDetector = r.det]
    IN  IF r.locked THEN [s1 EXCEPT !.state = "LOCKED"]
        ELSE IF a.needsRecovery /\ deficit > RECOVERY_DEFICIT_MIN
          THEN [s1 EXCEPT !.state = "ENDGAME"]
        ELSE s1)

handleLocking(s) ==
    Bind(checkLock(s.lockDetector, s.position), LAMBDA r :
    LET a == r.analysis
        deficit == IF a.recoverySide = "YES" THEN a.yesDeficit ELSE a.noDeficit
        s1 == [s EXCEPT !.lockDetector = r.det]
    IN  IF r.locked THEN [s1 EXCEPT !.state = "LOCKED"]
        ELSE IF a.needsRecovery /\ deficit > RECOVERY_DEFICIT_MIN
          THEN [s1 EXCEPT !.state = "RECOVERY"]
        ELSE s1)

\* what handleRecovery computes before it decides to place the order
RecoveryPlan(s, c) ==
    Bind(analyzePosition(s.position), LAMBDA a :
    LET recoverySide == a.recoverySide
        deficit == IF recoverySide = "YES" THEN a.yesDeficit ELSE a.noDeficit
        price == IF recoverySide = "YES" THEN c.priceYes ELSE c.priceNo
        sharesNeeded == calculateRecoveryShares(deficit, price, RECOVERY_BUFFER)
        currentShares == s.position.yesShares + s.position.noShares
        currentCost == s.position.yesCost + s.position.noCost
        hasToken == IF recoverySide = "YES" THEN c.entry.up ELSE c.entry.down
        size == Min(sharesNeeded, RECOVERY_MAX_SIZE)
    IN  [recoverySide |-> recoverySide, deficit |-> deficit, price |-> price,
         sharesNeeded |-> sharesNeeded, size |-> size, hasToken |-> hasToken,
         overShares |-> currentShares + sharesNeeded > c.caps.maxShares,
         overSpend |-> currentCost + sharesNeeded * price > c.caps.maxNotional,
         gates |-> /\ canPlaceOrder(s, price + RECOVERY_PRICE_BUMP, size, c.caps)
                   /\ canAddPairPosition(s, recoverySide, price + RECOVERY_PRICE_BUMP,
                                         size, "IOC")])

\* mutant of handleRecovery: the sanity ceiling on sharesNeeded is not applied
handleRecovery_noCeiling(s, ex, c) ==
    Bind(RecoveryPlan(s, c), LAMBDA p :
    LET back == [s EXCEPT !.state = "LOCKING"]
        order == [tokenId |-> Token(c.asset, c.window.id, p.recoverySide), side |-> "BUY",
                  price |-> p.price + RECOVERY_PRICE_BUMP, size |-> p.sharesNeeded,
                  type |-> "IOC"]
    IN  IF p.hasToken /\ p.sharesNeeded > 0
          THEN Bind(placeOrder(ex, order, c.fetch), LAMBDA r :
               IF r.status = "FILLED"
                 THEN [s |-> [back EXCEPT !.position =
                                AddFill(@, p.recoverySide, p.sharesNeeded,
                                        r.fillPrice * p.sharesNeeded)],
                       ex |-> r.ex, log |-> <<order>>]
                 ELSE [s |-> back, ex |-> r.ex, log |-> <<order>>])
        ELSE [s |-> back, ex |-> ex, log |-> << >>])

handleRecovery(s, ex, c) ==
    Bind(RecoveryPlan(s, c), LAMBDA p :
    LET back == [s EXCEPT !.state = "LOCKING"]
        order == [tokenId |-> Token(c.asset, c.window.id, p.recoverySide), side |-> "BUY",
                  price |-> p.price + RECOVERY_PRICE_BUMP, size |-> p.size,
                  type |-> "IOC"]
    IN  IF p.overShares THEN [s |-> back, ex |-> ex, log |-> << >>]
        ELSE IF p.overSpend THEN [s |-> back, ex |-> ex, log |-> << >>]
        ELSE IF p.hasToken /\ p.sharesNeeded > 0 /\ p.sharesNeeded < RECOVERY_CEILING
          THEN IF ~p.gates THEN [s |-> back, ex |-> ex, log |-> << >>]
               ELSE Bind(placeOrder(ex, order, c.fetch), LAMBDA r :
                    IF r.status = "FILLED"
                      \* result.size is undefined, result.fillPrice is never 0
                      THEN [s |-> [back EXCEPT !.position =
                                     AddFill(@, p.recoverySide, p.size,
                                             r.fillPrice * p.size)],
                            ex |-> r.ex, log |-> <<order>>]
                    ELSE [s |-> back, ex |-> r.ex, log |-> <<order>>])
        ELSE [s |-> back, ex |-> ex, log |-> << >>])

\* mutant of handleEndgame: the deficit of the leader's side is not looked at
handleEndgame_anyDeficit(s, ex, c) ==
    Bind(analyzePosition(s.position), LAMBDA a :
    LET leader == LeaderTracker_getLeader(s.leaderTracker)
        winnerPrice == IF leader = "YES" THEN c.priceYes ELSE c.priceNo
        winnerSide == IF leader = "YES" THEN "YES" ELSE "NO"
        hasToken == IF leader = "YES" THEN c.entry.up ELSE c.entry.down
        deficit == IF leader = "YES" THEN a.yesDeficit ELSE a.noDeficit
        sharesToBuy == IF winnerPrice >= 100 THEN ENDGAME_MAX_SHARES
                       ELSE Min(ENDGAME_MAX_SHARES, CeilDiv(deficit, 100 - winnerPrice))
        order == [tokenId |-> Token(c.asset, c.window.id, winnerSide), side |-> "BUY",
                  price |-> winnerPrice + RECOVERY_PRICE_BUMP, size |-> sharesToBuy,
                  type |-> "IOC"]
    IN  IF winnerPrice >= ENDGAME_PRICE /\ hasToken
          THEN IF ~canPlaceOrder(s, winnerPrice + RECOVERY_PRICE_BUMP, sharesToBuy, c.caps)
                 THEN [s |-> s, ex |-> ex, log |-> << >>]
               ELSE IF ~canAddPairPosition(s, winnerSide,
                                           winnerPrice + RECOVERY_PRICE_BUMP,
                                           sharesToBuy, "IOC")
                 THEN [s |-> s, ex |-> ex, log |-> << >>]
               ELSE [s |-> s, ex |-> placeOrder(ex, order, c.fetch).ex, log |-> <<order>>]
          ELSE [s |-> s, ex |-> ex, log |-> << >>])

handleEndgame(s, ex, c) ==
    Bind(analyzePosition(s.position), LAMBDA a :
    LET leader == LeaderTracker_getLeader(s.leaderTracker)
        winnerPrice == IF leader = "YES" THEN c.priceYes ELSE c.priceNo
        winnerSide == IF leader = "YES" THEN "YES" ELSE "NO"
        hasToken == IF leader = "YES" THEN c.entry.up ELSE c.entry.down
        deficit == IF leader = "YES" THEN a.yesDeficit ELSE a.noDeficit
        \* deficit / (1 - winnerPrice) is Infinity at winnerPrice = 1
        sharesToBuy == IF winnerPrice >= 100 THEN ENDGAME_MAX_SHARES
                       ELSE Min(ENDGAME_MAX_SHARES, CeilDiv(deficit, 100 - winnerPrice))
        order == [tokenId |-> Token(c.asset, c.window.id, winnerSide), side |-> "BUY",
                  price |-> winnerPrice + RECOVERY_PRICE_BUMP, size |-> sharesToBuy,
                  type |-> "IOC"]
    IN  IF winnerPrice >= ENDGAME_PRICE /\ hasToken /\ deficit > 0
          THEN IF ~canPlaceOrder(s, winnerPrice + RECOVERY_PRICE_BUMP, sharesToBuy, c.caps)
                 THEN [s |-> s, ex |-> ex, log |-> << >>]
               ELSE IF ~canAddPairPosition(s, winnerSide,
                                           winnerPrice + RECOVERY_PRICE_BUMP,
                                           sharesToBuy, "IOC")
                 THEN [s |-> s, ex |-> ex, log |-> << >>]
               ELSE [s |-> s, ex |-> placeOrder(ex, order, c.fetch).ex, log |-> <<order>>]
          ELSE [s |-> s, ex |-> ex, log |-> << >>])

\* mutant of the LOCKED case: a locked asset goes back to LOCKING
handleLocked_reopen(s, c) == [s EXCEPT !.state = "LOCKING"]

\* processAsset, case STATES.LOCKED
handleLocked(s, c) ==
    IF c.window.remaining_sec <= ENDGAME_SECONDS THEN [s EXCEPT !.state = "ENDGAME"]
    ELSE s

\* processAsset, "switch (state.state)"
Dispatch(s, ex, c, leaderInfo) ==
    CASE s.state = "ARMED" -> [s |-> handleArmed(s, c, leaderInfo), ex |-> ex, log |-> << >>]
      [] s.state = "ENTRY" -> handleEntry(s, ex, c)
      [] s.state = "LADDERING" -> handleLaddering(s, ex, c)
      [] s.state = "LOCKING" -> [s |-> handleLocking(s), ex |-> ex, log |-> << >>]
      [] s.state = "LOCKED" -> [s |-> handleLocked(s, c), ex |-> ex, log |-> << >>]
      [] s.state = "RECOVERY" -> handleRecovery(s, ex, c)
      [] s.state = "ENDGAME" -> handleEndgame(s, ex, c)
      [] OTHER -> [s |-> s, ex |-> ex, log |-> << >>]

\* processAsset(asset, assetOrder, window, orders).  c carries the call's arguments
\* and what the fetches of the call return: c.prices = [threw, yes, no] for the two
\* fetchClobPrice calls (a price 0 standing for a missing price), c.books for the
\* order books, c.fetch for the exchange's own price fetch.
processAsset(s0, ex0, c0) ==
    LET isNew == c0.window.id # s0.lastWindowId
        fetched == ~c0.entry.isNull /\ c0.entry.up /\ c0.entry.down /\ ~c0.prices.threw
        priceYes == IF fetched /\ c0.prices.yes # 0 THEN c0.prices.yes ELSE DEFAULT_PRICE
        priceNo == IF fetched /\ c0.prices.no # 0 THEN c0.prices.no ELSE DEFAULT_PRICE
    IN
    Bind([c0 EXCEPT !.priceYes = priceYes, !.priceNo = priceNo], LAMBDA c :
    Bind(IF isNew THEN WindowReset(s0, c.window.id) ELSE s0, LAMBDA s1 :
    Bind(LeaderTracker_update(s1.leaderTracker, c.priceYes, c.priceNo), LAMBDA leaderInfo :
    Bind([s1 EXCEPT !.leaderTracker = leaderInfo.trk], LAMBDA s2 :
    \* assetOrder.tokens?.up throws on a null assetOrder, outside any try block
    IF c.entry.isNull
      THEN [s |-> s2, ex |-> ex0, log |-> << >>, threw |-> TRUE, isNew |-> isNew,
            from |-> s2.state, fetched |-> fetched,
            priceYes |-> c.priceYes, priceNo |-> c.priceNo]
    ELSE
    Bind([s2 EXCEPT !.obiCalculator =
             updateOBIFromMarket(@, c.entry.up, c.entry.down, c.books, c.prices)],
         LAMBDA s3 :
    Bind(Dispatch(s3, ex0, c, leaderInfo), LAMBDA d :
         [s |-> d.s, ex |-> d.ex, log |-> d.log, threw |-> FALSE, isNew |-> isNew,
          from |-> s3.state, fetched |-> fetched,
          priceYes |-> c.priceYes, priceNo |-> c.priceNo]))))))

(***************************************************************************)
(* ClobOrderbookStream.  A stream is [closed, ws, reconnectMs, sockets,    *)
(* timers]: ws is the index in sockets of this.ws (0 for null), sockets    *)
(* are the WebSocket objects created so far, timers the number of pending  *)
(* setTimeout(() => this.connect(), wait) callbacks.  A socket is          *)
(* [phase, errored, scheduled]: CONNECTING, OPEN, ABORTED (closed or       *)
(* terminated before it opened: it will emit 'error', then 'close'),       *)
(* CLOSING (it will emit 'close') or GONE ('close' was emitted);           *)
(* scheduled counts the reconnects its events have scheduled.              *)
(***************************************************************************)
RECONNECT_START_MS == 500
RECONNECT_CAP_MS == 10000

StreamInit ==
    [closed |-> FALSE, ws |-> 0, reconnectMs |-> RECONNECT_START_MS,
     sockets |-> << >>, timers |-> 0]

NewSocket == [phase |-> "CONNECTING", errored |-> FALSE, scheduled |-> 0]

\* ws.terminate() and ws.close(), as far as the socket's later events go
EndSocket(sockets, id) ==
    IF id = 0 THEN sockets
    ELSE [sockets EXCEPT ![id].phase =
             IF @ = "CONNECTING" THEN "ABORTED"
             ELSE IF @ = "OPEN" THEN "CLOSING"
             ELSE @]

\* mutant of connect: a closed stream connects again
connect_afterClose(st) ==
    IF st.ws # 0 THEN st
    ELSE [st EXCEPT !.sockets = Append(@, NewSocket), !.ws = Len(st.sockets) + 1]

\* connect(), for a stream with a wsUrl
connect(st) ==
    IF st.closed \/ st.ws # 0 THEN st
    ELSE [st EXCEPT !.sockets = Append(@, NewSocket), !.ws = Len(st.sockets) + 1]

\* scheduleReconnect, the listener of 'close' and of 'error' of every socket
scheduleReconnect(st) ==
    IF st.closed THEN st
    ELSE [st EXCEPT !.sockets = EndSocket(@, st.ws),
                    !.ws = 0,
                    !.reconnectMs = Min(RECONNECT_CAP_MS, (st.reconnectMs * 3) \div 2),
                    !.timers = @ + 1]

\* the listener of 'open'
onOpen(st) == [st EXCEPT !.reconnectMs = RECONNECT_START_MS]

\* subscribe(tokenId) with a token id; the set of subscribed ids is left out
subscribe(st) == IF st.ws = 0 THEN connect(st) ELSE st

\* close()
close(st) == [st EXCEPT !.closed = TRUE, !.sockets = EndSocket(@, st.ws), !.ws = 0]

\* the sockets and timers followed
MaxSockets == 3
MaxTimers == 3

NoStreamStep == [op |-> "new", socket |-> 0, current |-> 0, closedBefore |-> FALSE]

(***************************************************************************)
(* State                                                                   *)
(***************************************************************************)
VARIABLES
    pc,          \* where run() is: "sleep" (between ticks) or "loop" (over orders.assets)
    packet,      \* the orders packet read by this tick
    idx,         \* index in packet.assets of the next asset of the loop
    assetState,  \* this.assetState: asset -> per-asset state
    exchange,    \* this.exchange
    call,        \* the last processAsset call: arguments, fetched prices, orders it submitted
    winOrders,   \* per asset, orders submitted since its last window reset, by order type
    wallWindow,  \* the window the wall clock is in, as last written to the orders file
    lastPrices,  \* per asset, the prices of its last successful fetch in its window
    flight,      \* the processAsset calls that were started and have not returned
    guardCall,   \* the last Guardrails.checkAll call made on its own, and its result
    capCall,     \* the last canPlaceOrder call made on its own, and its result
    det,         \* a LockDetector driven on its own
    detCall,     \* its last call and result
    trk,         \* a LeaderTracker driven on its own
    trkCalls,    \* its last MaxHist calls and results, and the facts of its whole run
    clock,       \* Date.now() of a ShadowExchange price cache driven on its own, in seconds
    quotes,      \* its priceCache and lastPriceFetch
    quoteLog,    \* when each cache entry was stored, and its last fetchRealPrice call
    stream,      \* a ClobOrderbookStream driven on its own, with its sockets and timers
    streamLog    \* what its last step was and did

vars == <<pc, packet, idx, assetState, exchange, call, winOrders, wallWindow,
          lastPrices, flight, guardCall, capCall, det, detCall, trk, trkCalls,
          clock, quotes, quoteLog, stream, streamLog>>
workerVars == <<pc, packet, idx, assetState, exchange, call, winOrders, wallWindow,
                lastPrices, flight>>
quoteVars == <<clock, quotes, quoteLog>>
streamVars == <<stream, streamLog>>
\* the variables of the calls and of the price cache driven on their own
gateVars == <<guardCall, capCall, quoteVars>>
lockVars == <<det, detCall>>
leaderVars == <<trk, trkCalls>>

(***************************************************************************)
(* Inputs of the model                                                     *)
(***************************************************************************)
Assets == <<"BTC", "SOL">>
AssetSet == {Assets[i] : i \in DOMAIN Assets}

\* window.remaining_sec values a tick may read; elapsed_sec is 900 - remaining_sec
RemainingVals == {850, 400, 10}

\* risk_caps of the packet: none (CONFIG defaults), tight ones, wide ones
CapsInputs ==
    { [max_shares_per_asset |-> 0, max_notional_usd_per_asset |-> 0,
       max_open_orders_per_asset |-> 0],
      [max_shares_per_asset |-> 30, max_notional_usd_per_asset |-> 1500,
       max_open_orders_per_asset |-> 3],
      [max_shares_per_asset |-> 200, max_notional_usd_per_asset |-> 20000,
       max_open_orders_per_asset |-> 0] }

\* an entry of orders.assets: with both tokens, without tokens, or null (malformed);
\* order is the foreman's recommendation for the asset
GoodEntry(a) == [asset |-> a, isNull |-> FALSE, up |-> TRUE, down |-> TRUE, order |-> "START"]
NoTokenEntry(a) ==
    [asset |-> a, isNull |-> FALSE, up |-> FALSE, down |-> FALSE, order |-> "START"]
NullEntry(a) == [asset |-> a, isNull |-> TRUE, up |-> FALSE, down |-> FALSE, order |-> Null]
\* an entry with both tokens whose order is HOLD or STOP
HeldEntry(a, order) == [GoodEntry(a) EXCEPT !.order = order]
AllForms == {"good", "notoken", "null", "hold", "stop"}
EntryOf(a, form) ==
    IF form = "good" THEN GoodEntry(a)
    ELSE IF form = "notoken" THEN NoTokenEntry(a)
    ELSE IF form = "hold" THEN HeldEntry(a, "HOLD")
    ELSE IF form = "stop" THEN HeldEntry(a, "STOP")
    ELSE NullEntry(a)

\* what the two fetchClobPrice calls of a processAsset call return
PriceFetches ==
    { [threw |-> TRUE, yes |-> 0, no |-> 0],
      [threw |-> FALSE, yes |-> 70, no |-> 30],
      [threw |-> FALSE, yes |-> 30, no |-> 70],
      [threw |-> FALSE, yes |-> 5, no |-> 95] }

\* what the two fetchOrderBook calls return
BookFetches ==
    { [threw |-> TRUE, yes |-> NoBook, no |-> NoBook],
      [threw |-> FALSE, yes |-> [ok |-> TRUE, bids |-> <<100>>, asks |-> <<100>>],
                        no |-> [ok |-> TRUE, bids |-> <<100>>, asks |-> <<0>>]] }

\* what the exchange's fetchClobPrice call returns
MarketFetches ==
    { [threw |-> TRUE, price |-> 0],
      [threw |-> FALSE, price |-> 30],
      [threw |-> FALSE, price |-> 60] }

\* how far the clock moves between two ticks, in time units
Advances == {0, 1, 2}
\* the same, for a worker whose ticks are either close together or far apart
CoarseAdvances == {0, 2}

MaxWindow == 2
MaxSamples == 1
\* the immediate-or-cancel orders followed per asset and window
MaxIOC == 2

NoPacket ==
    [window |-> [id |-> 0, elapsed_sec |-> 0, remaining_sec |-> 0],
     risk_caps |-> [max_shares_per_asset |-> 0, max_notional_usd_per_asset |-> 0,
                    max_open_orders_per_asset |-> 0],
     assets |-> << >>]

NoCall == [asset |-> Null, threw |-> FALSE, isNew |-> FALSE, from |-> Null,
           fetched |-> FALSE, priceYes |-> 0, priceNo |-> 0, log |-> << >>]

\* no prices fetched yet
NoPrices == [yes |-> 0, no |-> 0]

\* TOPUP counts the orders submitted from ENDGAME
NoOrders == [FOK |-> 0, GTC |-> 0, IOC |-> 0, TOPUP |-> 0]

\* Date.now() at construction is far above the initial lastPriceFetch of 0
QuoteStart == 5
MaxClock == 14
NoQuoteCall == [made |-> FALSE, hit |-> FALSE]

NoGuardCall == [made |-> FALSE]
NoCapCall == [made |-> FALSE]

(***************************************************************************)
(* Init: the state after construction                                      *)
(***************************************************************************)
Init ==
    /\ pc = "sleep"
    /\ packet = NoPacket
    /\ idx = 1
    /\ assetState = [a \in AssetSet |-> AssetStateInit]
    /\ exchange = ExchangeInit
    /\ call = NoCall
    /\ winOrders = [a \in AssetSet |-> NoOrders]
    /\ wallWindow = [id |-> 0, remaining_sec |-> 0]
    /\ lastPrices = [a \in AssetSet |-> NoPrices]
    /\ flight = {}
    /\ guardCall = NoGuardCall
    /\ capCall = NoCapCall
    /\ det = LockDetectorInit
    /\ detCall = [op |-> "new", position |-> ZeroPosition, isDualLock |-> FALSE,
                  locked |-> FALSE]
    /\ trk = LeaderTrackerInit
    /\ trkCalls = [hist |-> << >>, alternating |-> TRUE, first |-> Null]
    /\ clock = QuoteStart
    /\ quotes = QuotesInit
    /\ quoteLog = [storedAt |-> << >>, last |-> NoQuoteCall]
    /\ stream = StreamInit
    /\ streamLog = NoStreamStep

(***************************************************************************)
(* The run() loop                                                          *)
(***************************************************************************)
\* the clock moves by d: every timestamp kept by the trackers gets d older
AgeAsset(s, d) ==
    [s EXCEPT !.leaderTracker.flipCounter = AgeBy(@, d),
              !.obiCalculator = AgeOBI(@, d)]

\* the window information a tick can read after the previous one read w
NextWindowsUpTo(w, remainings, last) ==
    {[id |-> w.id, remaining_sec |-> r] : r \in {x \in remainings : x <= w.remaining_sec}}
    \cup (IF w.id < last
          THEN {[id |-> w.id + 1, remaining_sec |-> r] : r \in remainings}
          ELSE {})

NextWindows(w, remainings) == NextWindowsUpTo(w, remainings, MaxWindow)

RECURSIVE PacketAssets(_, _, _)
\* the orders.assets a tick can read, for the assets of the sequence universe:
\* each asset is present in one of the forms, or absent if the foreman may leave
\* assets out, in the order of universe
PacketAssets(universe, forms, mayBeAbsent) ==
    IF universe = << >> THEN {<< >>}
    ELSE LET rest == PacketAssets(Tail(universe), forms, mayBeAbsent)
         IN  (IF mayBeAbsent THEN rest ELSE {})
             \cup {<<EntryOf(Head(universe), f)>> \o q : f \in forms, q \in rest}

\* a tick must leave room in the rolling buffers unless the clock moves
RoomFor(d) ==
    d > 0 \/ \A a \in AssetSet :
                 /\ Len(assetState[a].obiCalculator.obiYes) < MaxSamples
                 /\ Len(assetState[a].obiCalculator.obiNo) < MaxSamples

\* run(): sleep, then readOrders() gives a packet with assets.  in holds the sets
\* the inputs of the tick are drawn from, windows the windows the wall clock may be in
ReadOrdersAmong(in, windows) ==
    /\ pc = "sleep"
    /\ \E w \in windows, rc \in in.caps,
          es \in PacketAssets(in.universe, in.forms, in.mayBeAbsent), d \in in.advances :
          /\ RoomFor(d)
          /\ wallWindow' = w
          /\ packet' = [window |-> [id |-> w.id, elapsed_sec |-> WINDOW_SEC - w.remaining_sec,
                                    remaining_sec |-> w.remaining_sec],
                        risk_caps |-> rc, assets |-> es]
          /\ assetState' = [a \in AssetSet |-> AgeAsset(assetState[a], d)]
          \* the cached prices are 5 seconds fresh: less than a time unit
          /\ \E fresh \in {FALSE} \cup (IF d = 0 THEN {exchange.cacheFresh} ELSE {}) :
                exchange' = [exchange EXCEPT !.cacheFresh = fresh]
    /\ pc' = "loop"
    /\ idx' = 1
    /\ call' = NoCall
    /\ UNCHANGED <<winOrders, lastPrices, flight, gateVars, lockVars, leaderVars, streamVars>>

ReadOrders(in) == ReadOrdersAmong(in, NextWindows(wallWindow, in.remainings))

CountType(log, type) == Len(SelectSeq(log, LAMBDA o : o.type = type))

\* the arguments of a processAsset call for an entry of the packet, with what the
\* fetches of the call return
CallOf(entry, pf, bf, mf) ==
    [asset |-> entry.asset, entry |-> entry, window |-> packet.window,
     caps |-> getRiskCaps(packet.risk_caps), prices |-> pf, books |-> bf,
     fetch |-> mf, priceYes |-> 0, priceNo |-> 0]

\* "await this.processAsset(asset, assetOrder, window, orders)" with the arguments c.
\* remember tells whether the prices of the successful fetches are kept in lastPrices
CallEffect(c, remember) ==
    LET a == c.asset
    IN  \E r \in {processAsset(assetState[a], exchange, c)} :
        LET before == IF r.isNew THEN NoOrders ELSE winOrders[a]
            after == [t \in {"FOK", "GTC", "IOC", "TOPUP"} |->
                         before[t] + IF t # "TOPUP" THEN CountType(r.log, t)
                                     ELSE IF r.from = "ENDGAME" THEN Len(r.log) ELSE 0]
            known == IF r.isNew THEN NoPrices ELSE lastPrices[a]
        IN
        /\ r.s.leaderTracker.totalFlips <= MaxFlips
        /\ after.IOC <= MaxIOC
        /\ assetState' = [assetState EXCEPT ![a] = r.s]
        /\ exchange' = r.ex
        /\ call' = [asset |-> a, threw |-> r.threw, isNew |-> r.isNew,
                    from |-> r.from, fetched |-> r.fetched, priceYes |-> r.priceYes,
                    priceNo |-> r.priceNo, log |-> r.log]
        /\ winOrders' = [winOrders EXCEPT ![a] = after]
        /\ lastPrices' = IF ~remember THEN lastPrices
                         ELSE [lastPrices EXCEPT ![a] =
                                 IF r.fetched THEN [yes |-> r.priceYes, no |-> r.priceNo]
                                 ELSE known]

\* run(): one iteration of "for (const [asset, assetOrder] of Object.entries(orders.assets))"
ProcessAsset(in) ==
    /\ pc = "loop"
    /\ idx <= Len(packet.assets)
    /\ flight = {}
    /\ \E pf \in in.prices, bf \in in.books, mf \in in.market :
         CallEffect(CallOf(packet.assets[idx], pf, bf, mf), in.remember)
    \* an exception leaves the loop for the catch block of run()
    /\ IF call'.threw THEN pc' = "sleep" /\ idx' = 1 /\ packet' = NoPacket
       ELSE pc' = "loop" /\ idx' = idx + 1 /\ packet' = packet
    /\ UNCHANGED <<wallWindow, flight, gateVars, lockVars, leaderVars, streamVars>>

\* run(): after the loop: exportState, checkPendingResolutions, telemetry
FinishTick ==
    /\ pc = "loop"
    /\ idx > Len(packet.assets)
    \* every awaited call has returned
    /\ flight = {}
    /\ pc' = "sleep"
    /\ idx' = 1
    /\ packet' = NoPacket
    /\ call' = NoCall
    /\ UNCHANGED <<assetState, exchange, winOrders, wallWindow, lastPrices, flight,
                   gateVars, lockVars, leaderVars, streamVars>>

(***************************************************************************)
(* The worker with one asset, whose packets are well formed                *)
(***************************************************************************)
InputsOne ==
    [universe |-> <<"BTC">>, forms |-> {"good"}, mayBeAbsent |-> TRUE,
     advances |-> CoarseAdvances, remember |-> FALSE,
     caps |-> CapsInputs, remainings |-> RemainingVals,
     prices |-> {pf \in PriceFetches : ~pf.threw},
     books |-> {bf \in BookFetches : bf.threw},
     market |-> MarketFetches]

ReadOrdersOne == ReadOrders(InputsOne)

ProcessAssetOne == ProcessAsset(InputsOne)

Next == ReadOrdersOne \/ ProcessAssetOne \/ FinishTick

Spec == Init /\ [][Next]_vars

(***************************************************************************)
(* The worker with two assets, whose packets may hold a malformed entry    *)
(***************************************************************************)
InputsTwo ==
    [universe |-> Assets, forms |-> {"good", "null"}, mayBeAbsent |-> FALSE,
     advances |-> {2}, remember |-> FALSE,
     caps |-> {rc \in CapsInputs : rc.max_shares_per_asset = 0},
     remainings |-> {400},
     prices |-> {pf \in PriceFetches : pf.yes = 70},
     books |-> {bf \in BookFetches : bf.threw},
     market |-> {mf \in MarketFetches : mf.price = 30}]

ReadOrdersTwo == ReadOrders(InputsTwo)

ProcessAssetTwo == ProcessAsset(InputsTwo)

NextMulti == ReadOrdersTwo \/ ProcessAssetTwo \/ FinishTick

SpecMulti == Init /\ [][NextMulti]_vars

(***************************************************************************)
(* A LockDetector driven on its own                                        *)
(***************************************************************************)
\* the positions passed to checkLock: shares and costs (cents) of both sides
LockShares == {0, 10, 20}
LockCosts == {0, 600, 900, 1000}
LockPositions ==
    { [yesShares |-> ys, yesCost |-> yc, noShares |-> ns, noCost |-> nc] :
        ys \in LockShares, yc \in LockCosts, ns \in LockShares, nc \in LockCosts }

CheckLock ==
    /\ \E position \in LockPositions :
         \E r \in {checkLock(det, position)} :
            /\ det' = r.det
            /\ detCall' = [op |-> "checkLock", position |-> position,
                           isDualLock |-> r.analysis.isDualLock, locked |-> r.locked]
    /\ UNCHANGED <<workerVars, gateVars, leaderVars, streamVars>>

ResetLock ==
    /\ det' = LockDetector_reset
    /\ detCall' = [op |-> "reset", position |-> ZeroPosition, isDualLock |-> FALSE,
                   locked |-> FALSE]
    /\ UNCHANGED <<workerVars, gateVars, leaderVars, streamVars>>

NextLock == CheckLock \/ ResetLock

SpecLock == Init /\ [][NextLock]_vars

(***************************************************************************)
(* A LeaderTracker driven on its own                                       *)
(***************************************************************************)
MaxTrackerFlips == 3

\* the prices passed to update(): YES ahead, NO ahead, a tie (NO by the code's test)
TrackerPrices == {<<70, 30>>, <<30, 70>>, <<50, 50>>}

LastCalls(hist) ==
    IF Len(hist) > MaxHist THEN SubSeq(hist, Len(hist) - MaxHist + 1, Len(hist)) ELSE hist

UpdateLeader ==
    /\ \E p \in TrackerPrices :
         \E r \in {LeaderTracker_update(trk, p[1], p[2])} :
            LET obs == InstantLeader(p[1], p[2])
                opposite == trk.currentLeader # Null /\ obs # trk.currentLeader
                lastOpposite == /\ trkCalls.hist # << >>
                                /\ trkCalls.hist[Len(trkCalls.hist)].opposite
                c == [obs |-> obs, opposite |-> opposite,
                      leaderBefore |-> trk.currentLeader,
                      pendingBefore |-> trk.pendingFlip,
                      totalBefore |-> trk.totalFlips,
                      flipped |-> r.flipped, leader |-> r.leader,
                      totalFlips |-> r.totalFlips, pendingAfter |-> r.trk.pendingFlip]
            IN  /\ r.totalFlips <= MaxTrackerFlips
                /\ trk' = r.trk
                /\ trkCalls' =
                     [hist |-> LastCalls(Append(trkCalls.hist, c)),
                      alternating |-> trkCalls.alternating /\ ~(opposite /\ lastOpposite),
                      first |-> IF trkCalls.first = Null THEN r.leader ELSE trkCalls.first]
    /\ UNCHANGED <<workerVars, gateVars, lockVars, streamVars>>

\* the clock moves between two update() calls
TrackerClock ==
    /\ \E d \in Advances \ {0} :
         /\ trk.flipCounter # << >>
         /\ trk' = [trk EXCEPT !.flipCounter = AgeBy(@, d)]
    /\ UNCHANGED <<trkCalls, workerVars, gateVars, lockVars, streamVars>>

\* resetForNewWindow(): the calls before it are no longer the latest calls
ResetTracker ==
    /\ trk.currentLeader # Null
    /\ trk' = LeaderTracker_resetForNewWindow(trk)
    /\ trkCalls' = [hist |-> << >>, alternating |-> TRUE, first |-> trk.currentLeader]
    /\ UNCHANGED <<workerVars, gateVars, lockVars, streamVars>>

NextLeader == UpdateLeader \/ TrackerClock \/ ResetTracker

SpecLeader == Init /\ [][NextLeader]_vars

(***************************************************************************)
(* Properties                                                              *)
(***************************************************************************)
\* the step is the processAsset call of asset a
TickOf(a) ==
    pc = "loop" /\ idx <= Len(packet.assets) /\ packet.assets[idx].asset = a

\* the step is a processAsset call of asset a that sees the window a is already in
\* and returns normally
SameWindowTick(a) == TickOf(a) /\ ~call'.isNew /\ ~call'.threw

\* the context of the processAsset call of the step, for the handlers' gates
CallContext(a) ==
    [asset |-> a, entry |-> packet.assets[idx], window |-> packet.window,
     caps |-> getRiskCaps(packet.risk_caps),
     priceYes |-> call'.priceYes, priceNo |-> call'.priceNo]

LowersPosition(p, q) ==
    \/ q.yesShares < p.yesShares \/ q.yesCost < p.yesCost
    \/ q.noShares < p.noShares \/ q.noCost < p.noCost

\* C1: a processAsset call that sees a window id different from lastWindowId resets
\* the asset before the state handler runs: the handler is dispatched from ARMED, and
\* after the call the position is all zeros, entryDone and ladderDone are false and
\* the lock detector is unlocked; no other step lowers a position field or clears
\* the lock.
C1_WindowReset ==
    [][\A a \in AssetSet :
         /\ (TickOf(a) /\ packet.window.id # assetState[a].lastWindowId) =>
               /\ call'.isNew
               /\ call'.from = "ARMED"
               /\ assetState'[a].state \in {"ARMED", "ENTRY"}
               /\ assetState'[a].position = ZeroPosition
               /\ ~assetState'[a].entryDone
               /\ ~assetState'[a].ladderDone
               /\ ~assetState'[a].lockDetector.locked
               /\ assetState'[a].lastWindowId = packet.window.id
         /\ (\/ LowersPosition(assetState[a].position, assetState'[a].position)
             \/ (assetState[a].lockDetector.locked /\ ~assetState'[a].lockDetector.locked))
               => (TickOf(a) /\ packet.window.id # assetState[a].lastWindowId)
      ]_vars

\* C1 happens: BTC bought in window 1 and its call in window 2 has reset the position
C1_Witness ==
    /\ call.asset = "BTC" /\ call.isNew
    /\ assetState["BTC"].lastWindowId = 2
    /\ \E side \in {"YES", "NO"} : Token("BTC", 1, side) \in DOMAIN exchange.positions
    /\ assetState["BTC"].position = ZeroPosition

\* C2: once a checkLock call has returned locked = true, every checkLock call returns
\* locked = true whatever the position, and the detector stays locked, until reset()
\* is called: only reset() takes locked from true to false.
C2_LockSticky ==
    [][/\ (det.locked /\ detCall'.op = "checkLock") => (detCall'.locked /\ det'.locked)
       /\ (det.locked /\ ~det'.locked) => detCall'.op = "reset"
       /\ (detCall.op = "checkLock" /\ detCall.locked) => det.locked
      ]_vars

\* C2 happens: a locked detector was given a position that is no dual lock and
\* answered locked
C2_Witness ==
    /\ detCall.op = "checkLock" /\ ~detCall.isDualLock /\ detCall.locked
    /\ det.locked

\* C3: a call that finds the asset in ENTRY leaves it in LADDERING with entryDone
\* set, whether the order filled, was killed or was not sent; FOK orders are sent
\* from ENTRY only, one per call, and at most one per asset and window.
C3_SingleEntry ==
    [][\A a \in AssetSet :
         /\ (SameWindowTick(a) /\ assetState[a].state = "ENTRY") =>
               /\ assetState'[a].state = "LADDERING"
               /\ assetState'[a].entryDone
         /\ (TickOf(a) /\ CountType(call'.log, "FOK") > 0) =>
               /\ call'.from = "ENTRY"
               /\ CountType(call'.log, "FOK") = 1
         /\ winOrders'[a].FOK <= 1
      ]_vars

\* C3 happens: the entry order of BTC was killed and BTC moved on to LADDERING
C3_Witness ==
    /\ call.asset = "BTC" /\ call.from = "ENTRY"
    /\ CountType(call.log, "FOK") = 1
    /\ assetState["BTC"].position = ZeroPosition
    /\ assetState["BTC"].state = "LADDERING"

\* C4: a call that finds the asset in LADDERING leaves it in LOCKING with ladderDone
\* set; GTC orders are sent from LADDERING only, each passed canPlaceOrder and
\* canAddPairPosition, and an asset sends at most 5 of them per window.
C4_LadderOnce ==
    [][\A a \in AssetSet :
         /\ (SameWindowTick(a) /\ assetState[a].state = "LADDERING") =>
               /\ assetState'[a].state = "LOCKING"
               /\ assetState'[a].ladderDone
         /\ TickOf(a) =>
               \A i \in DOMAIN call'.log :
                  call'.log[i].type = "GTC" =>
                     /\ call'.from = "LADDERING"
                     /\ canPlaceOrder(assetState[a], call'.log[i].price,
                                      call'.log[i].size, CallContext(a).caps)
                     /\ canAddPairPosition(assetState[a], call'.log[i].tokenId[3],
                                           call'.log[i].price, call'.log[i].size, "GTC")
         /\ winOrders'[a].GTC <= Len(LADDER_LEVELS)
      ]_vars

\* C4 happens: BTC sent the five ladder orders and is in LOCKING
C4_Witness ==
    /\ call.asset = "BTC" /\ call.from = "LADDERING"
    /\ CountType(call.log, "GTC") = Len(LADDER_LEVELS)
    /\ assetState["BTC"].state = "LOCKING"

RecoverySideDeficit(position) ==
    LET a == analyzePosition(position)
    IN  IF a.recoverySide = "YES" THEN a.yesDeficit ELSE a.noDeficit

\* C5: a call that finds the asset in LOCKING leaves it in LOCKED iff its position
\* is a dual lock, else in RECOVERY iff the deficit of the recovery side is above
\* 5 dollars, else in LOCKING; an asset in LOCKING is never locked yet.
C5_Locking ==
    [][\A a \in AssetSet :
         (SameWindowTick(a) /\ assetState[a].state = "LOCKING") =>
            LET dual == analyzePosition(assetState[a].position).isDualLock
                deficit == RecoverySideDeficit(assetState[a].position)
            IN  /\ ~assetState[a].lockDetector.locked
                /\ assetState'[a].state = "LOCKED" <=> dual
                /\ assetState'[a].state = "RECOVERY" <=>
                      (~dual /\ deficit > RECOVERY_DEFICIT_MIN)
                /\ assetState'[a].state = "LOCKING" <=>
                      (~dual /\ deficit <= RECOVERY_DEFICIT_MIN)
                /\ assetState'[a].position = assetState[a].position
                /\ call'.log = << >>
      ]_vars

\* C5 happens: BTC went from LOCKING to LOCKED on a dual lock
C5_Witness ==
    /\ call.asset = "BTC" /\ call.from = "LOCKING"
    /\ assetState["BTC"].state = "LOCKED"
    /\ analyzePosition(assetState["BTC"].position).isDualLock

\* C6: a call that finds the asset in RECOVERY leaves it in LOCKING and sends at
\* most one order, an IOC order; it sends it only if sharesNeeded is above 0 and
\* below 50 and the share cap, the spend cap, canPlaceOrder and canAddPairPosition
\* all pass, and the size of the order is at most 50.
C6_Recovery ==
    [][\A a \in AssetSet :
         (SameWindowTick(a) /\ assetState[a].state = "RECOVERY") =>
            LET p == RecoveryPlan(assetState[a], CallContext(a))
            IN  /\ assetState'[a].state = "LOCKING"
                /\ Len(call'.log) <= 1
                /\ call'.log # << >> =>
                      /\ call'.log[1].type = "IOC"
                      /\ p.sharesNeeded > 0
                      /\ p.sharesNeeded < RECOVERY_CEILING
                      /\ ~p.overShares /\ ~p.overSpend /\ p.gates
                      /\ call'.log[1].size <= RECOVERY_CEILING
                      /\ call'.log[1].size <= p.sharesNeeded
      ]_vars

\* C6 happens: BTC sent a recovery order and is back in LOCKING
C6_Witness ==
    /\ call.asset = "BTC" /\ call.from = "RECOVERY"
    /\ CountType(call.log, "IOC") = 1
    /\ assetState["BTC"].state = "LOCKING"

\* C7: a call in the same window that finds the asset in LOCKED sends no order,
\* leaves the exchange and the position alone, and leaves the asset in LOCKED, or
\* in ENDGAME exactly when remaining_sec <= 10; from ENDGAME the asset goes nowhere
\* in the window; a step that is no call of the asset does not move it.
C7_LockedStays ==
    [][\A a \in AssetSet :
         /\ (TickOf(a) /\ ~call'.isNew /\ assetState[a].state = "LOCKED") =>
               /\ call'.log = << >>
               /\ exchange' = exchange
               /\ assetState'[a].position = assetState[a].position
               /\ assetState'[a].state \in {"LOCKED", "ENDGAME"}
               /\ ~call'.threw =>
                     (assetState'[a].state = "ENDGAME"
                         <=> packet.window.remaining_sec <= ENDGAME_SECONDS)
         /\ (TickOf(a) /\ ~call'.isNew /\ assetState[a].state = "ENDGAME") =>
               assetState'[a].state = "ENDGAME"
         /\ ~TickOf(a) => assetState'[a].state = assetState[a].state
      ]_vars

\* C7 happens: BTC, locked, was called with 10 seconds left and is in ENDGAME
C7_Witness ==
    /\ call.asset = "BTC" /\ call.from = "LOCKED" /\ ~call.isNew
    /\ assetState["BTC"].state = "ENDGAME"
    /\ assetState["BTC"].lockDetector.locked

\* the calls of the tracker's history, oldest first
Hist == trkCalls.hist

\* call i of the history starts the debounce: the leader is L, nothing is pending,
\* and the observation is the opposite of L
StartsDebounce(i) ==
    /\ Hist[i].leaderBefore # Null
    /\ Hist[i].pendingBefore = Null
    /\ Hist[i].opposite

\* C8: from a leader L with no pending candidate, two consecutive update() calls
\* that observe the opposite of L confirm one flip: the first returns flipped = false
\* and leaves the leader, the second returns flipped = true, makes the observed side
\* the leader and adds exactly 1 to totalFlips; a third identical observation
\* returns flipped = false and leaves totalFlips.
C8_Debounce ==
    \A i \in DOMAIN Hist :
       (StartsDebounce(i) /\ i + 1 \in DOMAIN Hist /\ Hist[i + 1].obs = Hist[i].obs) =>
          /\ ~Hist[i].flipped
          /\ Hist[i].leader = Hist[i].leaderBefore
          /\ Hist[i].totalFlips = Hist[i].totalBefore
          /\ Hist[i + 1].flipped
          /\ Hist[i + 1].leader = Hist[i].obs
          /\ Hist[i + 1].totalFlips = Hist[i].totalBefore + 1
          /\ (i + 2 \in DOMAIN Hist /\ Hist[i + 2].obs = Hist[i].obs) =>
                /\ ~Hist[i + 2].flipped
                /\ Hist[i + 2].leader = Hist[i].obs
                /\ Hist[i + 2].totalFlips = Hist[i].totalBefore + 1

\* C8 happens: three identical observations opposite to the leader were made in a row
C8_Witness ==
    /\ Len(Hist) = 3
    /\ StartsDebounce(1)
    /\ Hist[2].obs = Hist[1].obs /\ Hist[3].obs = Hist[1].obs
    /\ Hist[2].flipped /\ ~Hist[3].flipped

\* C9: as long as no observation opposite to the leader has been followed at once by
\* another opposite observation, every update() returned flipped = false, the leader
\* is the first one and totalFlips is 0; and an update() whose observation matches
\* the leader leaves no pending candidate.
C9_Alternation ==
    /\ (trkCalls.alternating /\ Hist # << >>) =>
          /\ \A i \in DOMAIN Hist : ~Hist[i].flipped
          /\ trk.currentLeader = trkCalls.first
          /\ trk.totalFlips = 0
    /\ \A i \in DOMAIN Hist :
          (Hist[i].leaderBefore # Null /\ ~Hist[i].opposite) => Hist[i].pendingAfter = Null

\* C9 happens: the observations went opposite, matching, opposite
C9_Witness ==
    /\ trkCalls.alternating
    /\ Len(Hist) = 3
    /\ Hist[1].opposite /\ ~Hist[2].opposite /\ Hist[3].opposite
    /\ Hist[3].pendingAfter # Null

\* C10: a processAsset call that throws leaves the loop running for the remaining
\* assets of the tick and leaves the asset's state and position as they were.
C10_ExceptionIsolated ==
    [][\A a \in AssetSet :
         (TickOf(a) /\ call'.threw) =>
            /\ pc' = "loop" /\ idx' = idx + 1
            /\ assetState'[a].state = assetState[a].state
            /\ assetState'[a].position = assetState[a].position
      ]_vars

\* the loop part of C10 alone: after a call that throws, the rest of the tick runs
C10_LoopGoesOn ==
    [][\A a \in AssetSet : (TickOf(a) /\ call'.threw) => pc' = "loop"]_vars

\* the state part of C10 alone
C10_AssetUntouched ==
    [][\A a \in AssetSet :
         (TickOf(a) /\ call'.threw) =>
            /\ assetState'[a].state = assetState[a].state
            /\ assetState'[a].position = assetState[a].position
      ]_vars

\* C10's case happens: BTC's call threw in window 2 with SOL behind it in the packet;
\* BTC, which held shares of window 1, was reset, and SOL was not called
C10_Witness ==
    /\ call.asset = "BTC" /\ call.threw /\ call.isNew
    /\ pc = "sleep"
    /\ assetState["BTC"].state = "ARMED"
    /\ assetState["BTC"].position = ZeroPosition
    /\ Token("BTC", 1, "YES") \in DOMAIN exchange.positions
    /\ assetState["BTC"].lastWindowId = 2
    /\ assetState["SOL"].lastWindowId = 1
(***************************************************************************)
(* The worker with one asset whose price fetches may fail                  *)
(***************************************************************************)
InputsFetch ==
    [universe |-> <<"BTC">>, forms |-> {"good"}, mayBeAbsent |-> FALSE,
     advances |-> CoarseAdvances, remember |-> TRUE,
     caps |-> {rc \in CapsInputs : rc.max_shares_per_asset = 0},
     remainings |-> {400, 10},
     prices |-> {pf \in PriceFetches : pf.threw \/ pf.yes \in {70, 30}},
     books |-> {bf \in BookFetches : bf.threw},
     market |-> {mf \in MarketFetches : mf.price = 30}]

ReadOrdersFetch == ReadOrders(InputsFetch)

ProcessAssetFetch == ProcessAsset(InputsFetch)

NextFetch == ReadOrdersFetch \/ ProcessAssetFetch \/ FinishTick

SpecFetch == Init /\ [][NextFetch]_vars

\* the step is a processAsset call of asset a, in the window a is in, whose price
\* fetch fails after an earlier fetch of the window succeeded
FailedFetchTick(a) ==
    /\ TickOf(a)
    /\ ~call'.isNew /\ ~call'.fetched
    /\ lastPrices[a] # NoPrices

\* C11: a call whose price fetch fails uses the prices of the last successful fetch:
\* the leader tracker observes the instantaneous leader that fetch showed, and the
\* call confirms no flip and changes no leader.
C11_FetchFailureKeepsPrices ==
    [][\A a \in AssetSet :
         FailedFetchTick(a) =>
            /\ call'.priceYes = lastPrices[a].yes
            /\ call'.priceNo = lastPrices[a].no
            /\ InstantLeader(call'.priceYes, call'.priceNo)
                  = InstantLeader(lastPrices[a].yes, lastPrices[a].no)
            /\ assetState'[a].leaderTracker.totalFlips
                  = assetState[a].leaderTracker.totalFlips
            /\ assetState'[a].leaderTracker.currentLeader
                  = assetState[a].leaderTracker.currentLeader
      ]_vars

\* the observation part of C11 alone
C11_SameObservation ==
    [][\A a \in AssetSet :
         FailedFetchTick(a) =>
            InstantLeader(call'.priceYes, call'.priceNo)
               = InstantLeader(lastPrices[a].yes, lastPrices[a].no)
      ]_vars

\* the flip part of C11 alone
C11_NoFlipOnFailure ==
    [][\A a \in AssetSet :
         FailedFetchTick(a) =>
            /\ assetState'[a].leaderTracker.totalFlips
                  = assetState[a].leaderTracker.totalFlips
            /\ assetState'[a].leaderTracker.currentLeader
                  = assetState[a].leaderTracker.currentLeader
      ]_vars

\* C11's case happens: after a fetch of 0.70 / 0.30 two fetches of BTC failed in the
\* same window; the calls used 0.50 / 0.50 and the leader went from YES to NO
C11_Witness ==
    /\ call.asset = "BTC" /\ ~call.fetched /\ ~call.isNew /\ ~call.threw
    /\ lastPrices["BTC"] = [yes |-> 70, no |-> 30]
    /\ call.priceYes = DEFAULT_PRICE /\ call.priceNo = DEFAULT_PRICE
    /\ assetState["BTC"].leaderTracker.currentLeader = "NO"
    /\ assetState["BTC"].leaderTracker.totalFlips = 1

(***************************************************************************)
(* The worker with two assets, the processAsset calls of the loop seen as  *)
(* asynchronous calls: started, then returned                              *)
(***************************************************************************)
InputsSerial ==
    [universe |-> Assets, forms |-> {"good"}, mayBeAbsent |-> FALSE,
     advances |-> {2}, remember |-> FALSE,
     caps |-> {rc \in CapsInputs : rc.max_shares_per_asset = 0},
     remainings |-> {400},
     prices |-> {pf \in PriceFetches : pf.yes = 70},
     books |-> {bf \in BookFetches : bf.threw},
     market |-> {mf \in MarketFetches : ~mf.threw}]

\* mutant of the await in the loop: the loop does not wait for the call to return
Awaited_not(calls) == TRUE

\* "results.push(await this.processAsset(...))": the loop goes on to the next asset
\* when the call it started has returned
Awaited(calls) == calls = {}

ReadOrdersSerial == ReadOrders(InputsSerial)

\* the loop calls processAsset for the next asset of the packet
StartCall ==
    /\ pc = "loop"
    /\ idx <= Len(packet.assets)
    /\ Awaited(flight)
    /\ \E pf \in InputsSerial.prices, bf \in InputsSerial.books, mf \in InputsSerial.market :
         flight' = flight \cup {CallOf(packet.assets[idx], pf, bf, mf)}
    /\ idx' = idx + 1
    /\ UNCHANGED <<pc, packet, assetState, exchange, call, winOrders, wallWindow,
                   lastPrices, gateVars, lockVars, leaderVars, streamVars>>

\* a started processAsset call runs and returns
ReturnCall ==
    /\ \E c \in flight :
         /\ CallEffect(c, FALSE)
         /\ flight' = flight \ {c}
    /\ IF call'.threw THEN pc' = "sleep" /\ idx' = 1 /\ packet' = NoPacket
       ELSE UNCHANGED <<pc, idx, packet>>
    /\ UNCHANGED <<wallWindow, gateVars, lockVars, leaderVars, streamVars>>

NextSerial == ReadOrdersSerial \/ StartCall \/ ReturnCall \/ FinishTick

SpecSerial == Init /\ [][NextSerial]_vars

\* what fills and resting orders change on the exchange
Ledger(ex) == <<ex.balance, ex.positions, ex.orders>>

RECURSIVE SumCost(_, _)
SumCost(positions, keys) ==
    IF keys = {} THEN 0
    ELSE LET k == CHOOSE x \in keys : TRUE
         IN  positions[k].cost + SumCost(positions, keys \ {k})

\* C12: at most one processAsset call is in progress at any time: a call is started
\* only when none is in progress; the ledger of the exchange changes only by the
\* return of the one call in progress; and after every step the balance and the
\* costs of the positions add up to the starting balance (each fill took from the
\* balance what it added to a position).
C12_Serialized ==
    [][/\ Cardinality(flight) <= 1
       /\ Cardinality(flight') <= 1
       /\ (flight' # flight /\ flight \subseteq flight') => flight = {}
       /\ Ledger(exchange') # Ledger(exchange) =>
             (Cardinality(flight) = 1 /\ flight' = {})
       /\ exchange'.balance + SumCost(exchange'.positions, DOMAIN exchange'.positions)
             = START_BALANCE
      ]_vars

\* C12 happens: in one tick BTC's call returned with its entry filled, then SOL's
\* call was started and returned with its entry filled
C12_Witness ==
    /\ pc = "loop" /\ idx = 3 /\ flight = {}
    /\ call.asset = "SOL" /\ CountType(call.log, "FOK") = 1
    /\ assetState["BTC"].state = "LADDERING" /\ assetState["SOL"].state = "LADDERING"
    /\ Token("BTC", 1, "YES") \in DOMAIN exchange.positions
    /\ Token("SOL", 1, "YES") \in DOMAIN exchange.positions

\* C13: every position field of an asset is >= 0 after every step, and a step lowers
\* a position field only if it is a processAsset call of the asset that sees a new
\* window, which leaves all four fields at 0.
C13_PositionMonotone ==
    [][\A a \in AssetSet :
         LET p == assetState[a].position
             q == assetState'[a].position
         IN  /\ q.yesShares >= 0 /\ q.yesCost >= 0 /\ q.noShares >= 0 /\ q.noCost >= 0
             /\ q.yesShares >= p.yesShares \/ q = ZeroPosition
             /\ q.yesCost >= p.yesCost \/ q = ZeroPosition
             /\ q.noShares >= p.noShares \/ q = ZeroPosition
             /\ q.noCost >= p.noCost \/ q = ZeroPosition
             /\ (q # p /\ q = ZeroPosition) => (TickOf(a) /\ call'.isNew)
      ]_vars

\* C13 happens: BTC, holding its filled entry, had a recovery order filled in the
\* same window: both sides of its position are above 0
C13_Witness ==
    /\ call.asset = "BTC" /\ call.from = "RECOVERY" /\ ~call.isNew
    /\ assetState["BTC"].position.yesShares > 0 /\ assetState["BTC"].position.yesCost > 0
    /\ assetState["BTC"].position.noShares > 0 /\ assetState["BTC"].position.noCost > 0

(***************************************************************************)
(* Guardrails.checkAll called on its own                                   *)
(***************************************************************************)
Sample(v) == [age |-> 0, value |-> v]

\* the calculators whose rolling OBI of the YES side is passed to checkAll: no
\* sample, one sample around the threshold, two samples whose mean is the threshold
GuardCalcs ==
    { [OBICalculatorInit EXCEPT !.obiYes = q] :
        q \in { << >>, <<Sample(-31)>>, <<Sample(-30)>>, <<Sample(-29)>>,
                <<Sample(-40), Sample(-20)>>, <<Sample(20)>> } }

GuardElapsed == {50, 90, 450}
GuardFlipCounts == {0, 1, 2, 3}
GuardShares == {0, 10}
GuardStabilities == {50, 60, 70}
GuardPrices == {<<70, 30>>, <<95, 5>>}
GuardOrders == {"START", "HOLD", "STOP"}
GuardPairCosts == {<< >>, <<99>>, <<100>>}

\* one call of checkAll on a fresh Guardrails object, which keeps no state
CheckAllCall ==
    /\ ~guardCall.made
    /\ \E calc \in GuardCalcs, e \in GuardElapsed, f \in GuardFlipCounts,
          sh \in GuardShares, st \in GuardStabilities, p \in GuardPrices,
          o \in GuardOrders, pcst \in GuardPairCosts :
          LET in == [elapsedSec |-> e, windowSec |-> WINDOW_SEC,
                     obi |-> getRollingOBI(calc, "YES"), obiSide |-> "YES",
                     flipCount |-> f, shares |-> sh, stability |-> st,
                     priceYes |-> p[1], priceNo |-> p[2],
                     foremanOrder |-> o, pairCost |-> pcst]
          IN  \E out \in {checkAll(in)} :
                 guardCall' = [made |-> TRUE, calc |-> calc, in |-> in, out |-> out]
    /\ UNCHANGED <<workerVars, capCall, quoteVars, lockVars, leaderVars, streamVars>>

NextGuard == CheckAllCall

SpecGuard == Init /\ [][NextGuard]_vars

\* whether each of the seven checks passes on the inputs in, check by check
ChecksPassed(in) ==
    [foreman |-> in.foremanOrder = "START",
     rhr |-> checkRHR(in.elapsedSec, in.windowSec).passed,
     obi |-> checkOBI(in.obi, in.obiSide).passed,
     flips |-> checkFlips(in.flipCount, in.shares).passed,
     stability |-> checkStability(in.stability).passed,
     spread |-> checkSpread(in.priceYes, in.priceNo).passed,
     pairCost |-> checkPairCost(in.pairCost).passed]

\* the number of entries of blockers named k
Entries(blockers, k) == Len(SelectSeq(blockers, LAMBDA b : b = k))

\* C14: checkAll returns allowed = true iff the seven checks all pass; blockers has
\* one entry for each failing check and none for a passing check; and a result with
\* allowed = false has mode BLOCKED, never ENTRY_ALLOWED or RECOVERY.
C14_CheckAll ==
    guardCall.made =>
       LET passed == ChecksPassed(guardCall.in)
           out == guardCall.out
       IN  /\ DOMAIN passed = {GuardNames[i] : i \in DOMAIN GuardNames}
           /\ out.allowed <=> \A k \in DOMAIN passed : passed[k]
           /\ \A k \in DOMAIN passed :
                 Entries(out.blockers, k) = IF passed[k] THEN 0 ELSE 1
           /\ Len(out.blockers) = Cardinality({k \in DOMAIN passed : ~passed[k]})
           /\ ~out.allowed => out.mode \notin {"ENTRY_ALLOWED", "RECOVERY"}
           /\ out.allowed => out.mode \in {"ENTRY_ALLOWED", "RECOVERY"}

\* C14 happens: a call with the foreman, the spread and the pair cost failing is
\* refused with these three blockers
C14_Witness ==
    /\ guardCall.made
    /\ ~guardCall.out.allowed /\ guardCall.out.mode = "BLOCKED"
    /\ guardCall.out.blockers = <<"foreman", "spread", "pairCost">>

\* C15: the OBI check passes iff the rolling OBI is strictly above the threshold, as
\* isBlocking of the calculator tells; an OBI at or below the threshold makes
\* checkAll return allowed = false with a blocker named obi, whatever the other
\* checks say, and an OBI above it gives no such blocker.
C15_ObiBlocks ==
    guardCall.made =>
       LET obi == guardCall.in.obi
           out == guardCall.out
           above == obi[1] > OBI_BLOCK_THRESHOLD * obi[2]
       IN  /\ out.results.obi.passed <=> above
           /\ isBlocking(guardCall.calc, "YES", OBI_BLOCK_THRESHOLD) <=> ~above
           /\ ~above => (~out.allowed /\ Entries(out.blockers, "obi") = 1)
           /\ above => Entries(out.blockers, "obi") = 0

\* C15 happens: with two samples whose mean is exactly the threshold and every other
\* check passing, the call is refused with the OBI blocker alone
C15_Witness ==
    /\ guardCall.made
    /\ guardCall.in.obi = <<-60, 2>>
    /\ ~guardCall.out.allowed
    /\ guardCall.out.blockers = <<"obi">>

(***************************************************************************)
(* canPlaceOrder called on its own                                         *)
(***************************************************************************)
\* the positions, prices, sizes and caps of the calls
CapYesShares == {0, 20, 25}
CapNoShares == {0, 20}
CapYesCosts == {0, 1000, 1200}
CapNoCosts == {0, 1000}
CapPrices == {38, 50, 60}
CapSizes == {5, 10}

\* one call of canPlaceOrder(state, price, size, caps)
CanPlaceCall ==
    /\ ~capCall.made
    /\ \E ys \in CapYesShares, ns \in CapNoShares, yc \in CapYesCosts, nc \in CapNoCosts,
          price \in CapPrices, size \in CapSizes, rc \in CapsInputs :
          LET s == [AssetStateInit EXCEPT
                      !.position = [yesShares |-> ys, yesCost |-> yc,
                                    noShares |-> ns, noCost |-> nc]]
              caps == getRiskCaps(rc)
          IN  capCall' = [made |-> TRUE, state |-> s, price |-> price, size |-> size,
                          caps |-> caps, ok |-> canPlaceOrder(s, price, size, caps)]
    /\ UNCHANGED <<workerVars, guardCall, quoteVars, lockVars, leaderVars, streamVars>>

NextCaps == CanPlaceCall

SpecCaps == Init /\ [][NextCaps]_vars

\* C16: canPlaceOrder returns false iff the shares held plus the size are above
\* caps.maxShares or the cost held plus price * size is above caps.maxNotional; a
\* projection equal to a cap is accepted, and 45 shares held with size 10 against a
\* cap of 50 are refused.
C16_CanPlaceOrder ==
    capCall.made =>
       LET p == capCall.state.position
           shares == p.yesShares + p.noShares + capCall.size
           cost == p.yesCost + p.noCost + capCall.price * capCall.size
       IN  /\ ~capCall.ok <=>
                 (shares > capCall.caps.maxShares \/ cost > capCall.caps.maxNotional)
           /\ (shares = capCall.caps.maxShares /\ cost <= capCall.caps.maxNotional)
                 => capCall.ok
           /\ (cost = capCall.caps.maxNotional /\ shares <= capCall.caps.maxShares)
                 => capCall.ok
           /\ (p.yesShares + p.noShares = 45 /\ capCall.size = 10
                 /\ capCall.caps.maxShares = 50) => ~capCall.ok

\* C16 happens: with 40 shares held at a cost of 20 dollars, an order of 10 shares at
\* 0.50 reaches both caps (50 shares, 25 dollars) and is accepted
C16_Witness ==
    /\ capCall.made
    /\ capCall.state.position.yesShares + capCall.state.position.noShares = 40
    /\ capCall.state.position.yesCost + capCall.state.position.noCost = 2000
    /\ capCall.size = 10 /\ capCall.price = 50
    /\ capCall.caps = DefaultCaps
    /\ capCall.ok

\* C17: analyzePosition reports isDualLock = true iff yesShares - (yesCost + noCost)
\* and noShares - (yesCost + noCost) are both above 0 (in cents: shares * 100 - cost);
\* 20 shares on each side at a cost of 9 dollars each give a profit of 2 dollars either
\* way and a dual lock; a profit of exactly 0 on a side gives no dual lock.
C17_DualLock ==
    detCall.op = "checkLock" =>
       LET p == detCall.position
           pnlYes == p.yesShares * 100 - (p.yesCost + p.noCost)
           pnlNo == p.noShares * 100 - (p.yesCost + p.noCost)
           a == analyzePosition(p)
       IN  /\ detCall.isDualLock <=> (pnlYes > 0 /\ pnlNo > 0)
           /\ a.pnlIfYesWins = pnlYes /\ a.pnlIfNoWins = pnlNo
           /\ (pnlYes = 0 \/ pnlNo = 0) => ~detCall.isDualLock
           /\ p = [yesShares |-> 20, yesCost |-> 900, noShares |-> 20, noCost |-> 900]
                 => (pnlYes = 200 /\ pnlNo = 200 /\ detCall.isDualLock)

\* C17 happens: a position with a profit of exactly 0 if YES wins and a profit above
\* 0 if NO wins was analysed on an unlocked detector and is no dual lock
C17_Witness ==
    /\ detCall.op = "checkLock"
    /\ detCall.position = [yesShares |-> 10, yesCost |-> 1000, noShares |-> 20, noCost |-> 0]
    /\ ~detCall.isDualLock /\ ~detCall.locked

(***************************************************************************)
(* The worker with one asset whose upstream order may be HOLD or STOP      *)
(***************************************************************************)
InputsSignal ==
    [universe |-> <<"BTC">>, forms |-> {"good", "hold", "stop"}, mayBeAbsent |-> FALSE,
     advances |-> {2}, remember |-> FALSE,
     caps |-> {rc \in CapsInputs : rc.max_shares_per_asset = 0},
     remainings |-> {850, 400},
     prices |-> {pf \in PriceFetches : pf.yes \in {70, 5}},
     books |-> {bf \in BookFetches : bf.threw},
     market |-> {mf \in MarketFetches : mf.price = 30}]

ReadOrdersSignal == ReadOrders(InputsSignal)

ProcessAssetSignal == ProcessAsset(InputsSignal)

NextSignal == ReadOrdersSignal \/ ProcessAssetSignal \/ FinishTick

SpecSignal == Init /\ [][NextSignal]_vars

\* C18: a processAsset call that handles the asset in ARMED while the order of the
\* asset in the packet is not START leaves the asset in ARMED and submits no order.
C18_UpstreamStart ==
    [][\A a \in AssetSet :
         (TickOf(a) /\ ~call'.threw /\ call'.from = "ARMED"
            /\ packet.assets[idx].order # "START") =>
               /\ assetState'[a].state = "ARMED"
               /\ call'.log = << >>
      ]_vars

\* C18's case happens: BTC, whose order in the packet is HOLD, went from ARMED to ENTRY
C18_Witness ==
    /\ pc = "loop" /\ idx = 2
    /\ packet.assets[1].asset = "BTC" /\ packet.assets[1].order = "HOLD"
    /\ call.asset = "BTC" /\ call.from = "ARMED" /\ ~call.threw
    /\ assetState["BTC"].state = "ENTRY"

\* the checkAll call that handleArmed makes in the processAsset call of the step: the
\* trackers are those the call leaves, handleArmed changing neither
ArmedCheck(a) ==
    checkAll([elapsedSec |-> packet.window.elapsed_sec,
              windowSec |-> WINDOW_SEC,
              obi |-> getRollingOBI(assetState'[a].obiCalculator, "YES"),
              obiSide |-> "YES",
              flipCount |-> Len(assetState'[a].leaderTracker.flipCounter),
              shares |-> assetState'[a].position.yesShares
                            + assetState'[a].position.noShares,
              stability |-> ARMED_STABILITY,
              priceYes |-> call'.priceYes,
              priceNo |-> call'.priceNo,
              foremanOrder |-> "START",
              pairCost |-> << >>])

\* C19: a processAsset call that handles the asset in ARMED leaves it in RECOVERY if
\* checkAll allows with mode RECOVERY, in ENTRY if checkAll allows with another mode,
\* and in ARMED if checkAll refuses; it submits no order and sets no flag, and in the
\* same window it leaves the position and the flags as they were.
C19_ArmedGate ==
    [][\A a \in AssetSet :
         (TickOf(a) /\ ~call'.threw /\ call'.from = "ARMED") =>
            LET check == ArmedCheck(a)
            IN  /\ (check.allowed /\ check.mode = "RECOVERY")
                      => assetState'[a].state = "RECOVERY"
                /\ (check.allowed /\ check.mode # "RECOVERY")
                      => assetState'[a].state = "ENTRY"
                /\ ~check.allowed => assetState'[a].state = "ARMED"
                /\ call'.log = << >>
                /\ exchange' = exchange
                /\ ~assetState'[a].entryDone /\ ~assetState'[a].ladderDone
                /\ ~call'.isNew =>
                      /\ assetState'[a].position = assetState[a].position
                      /\ assetState'[a].entryDone = assetState[a].entryDone
                      /\ assetState'[a].ladderDone = assetState[a].ladderDone
      ]_vars

\* C19 happens: BTC, in ARMED with 400 seconds left, was refused for a spread of
\* 0.90 and is still in ARMED
C19_Witness ==
    /\ pc = "loop" /\ packet.window.remaining_sec = 400
    /\ call.asset = "BTC" /\ call.from = "ARMED" /\ ~call.isNew /\ ~call.threw
    /\ call.priceYes = 5 /\ call.priceNo = 95
    /\ assetState["BTC"].state = "ARMED"

(***************************************************************************)
(* The worker with one asset whose caps cut into the ladder                *)
(***************************************************************************)
\* risk_caps of the packet: none, a notional cap between two ladder levels for a
\* position bought at 0.30, an open-order cap below the number of levels
LadderCapsInputs ==
    { [max_shares_per_asset |-> 0, max_notional_usd_per_asset |-> 0,
       max_open_orders_per_asset |-> 0],
      [max_shares_per_asset |-> 0, max_notional_usd_per_asset |-> 485,
       max_open_orders_per_asset |-> 0],
      [max_shares_per_asset |-> 0, max_notional_usd_per_asset |-> 0,
       max_open_orders_per_asset |-> 3] }

InputsLadder ==
    [universe |-> <<"BTC">>, forms |-> {"good"}, mayBeAbsent |-> FALSE,
     advances |-> {2}, remember |-> FALSE,
     caps |-> LadderCapsInputs,
     remainings |-> {400},
     prices |-> {pf \in PriceFetches : pf.yes \in {70, 30}},
     books |-> {bf \in BookFetches : bf.threw},
     market |-> {mf \in MarketFetches : ~mf.threw}]

ReadOrdersLadder == ReadOrders(InputsLadder)

ProcessAssetLadder == ProcessAsset(InputsLadder)

NextLadder == ReadOrdersLadder \/ ProcessAssetLadder \/ FinishTick

SpecLadder == Init /\ [][NextLadder]_vars

\* level i of the ladder was submitted by the processAsset call of the step
Submitted(i) == \E j \in DOMAIN call'.log : call'.log[j].price = LADDER_LEVELS[i]

\* the GTC orders of the asset's tokens that are open when the loop reaches level i
OpenAtLevel(a, i) ==
    countOpenGtcOrders(exchange, EntryTokens(CallContext(a)))
       + Cardinality({k \in 1..(i - 1) : Submitted(k)})

\* level i passes the share cap, the notional cap and the pair-cost cap
PassesGates(a, i) ==
    LET leader == LeaderTracker_getLeader(assetState'[a].leaderTracker)
        ladderSide == IF leader = "YES" THEN "NO" ELSE "YES"
    IN  /\ canPlaceOrder(assetState[a], LADDER_LEVELS[i], LADDER_SIZE, CallContext(a).caps)
        /\ canAddPairPosition(assetState[a], ladderSide, LADDER_LEVELS[i],
                              LADDER_SIZE, "GTC")

CapsOfWindow(w) ==
    [max_shares_per_asset |-> 0, max_notional_usd_per_asset |-> 0,
     max_open_orders_per_asset |-> IF w % 2 = 1 THEN 3 ELSE 0]

InputsOpen ==
    [universe |-> <<"BTC">>, forms |-> {"good", "notoken"}, mayBeAbsent |-> FALSE,
     advances |-> {2}, remember |-> FALSE,
     caps |-> {CapsOfWindow(w) : w \in 1..MaxWindow},
     remainings |-> {400},
     prices |-> {pf \in PriceFetches : pf.yes \in {70, 30}},
     books |-> {bf \in BookFetches : bf.threw},
     market |-> {mf \in MarketFetches : ~mf.threw}]

ReadOrdersOpen ==
    /\ ReadOrders(InputsOpen)
    /\ packet'.risk_caps = CapsOfWindow(packet'.window.id)

ProcessAssetOpen == ProcessAsset(InputsOpen)

NextOpen == ReadOrdersOpen \/ ProcessAssetOpen \/ FinishTick

SpecOpen == Init /\ [][NextOpen]_vars

\* the GTC orders the exchange holds for the tokens of the asset's current window
OpenOrdersOf(a) ==
    countOpenGtcOrders(exchange,
                       {Token(a, assetState[a].lastWindowId, side) : side \in {"YES", "NO"}})

\* C21: with caps that stay the same during a window, the number of open GTC orders
\* the exchange holds for the tokens of an asset's current window never exceeds
\* caps.maxOpenOrders.
C21_OpenOrderCap ==
    \A a \in AssetSet :
        assetState[a].lastWindowId # 0 =>
            OpenOrdersOf(a)
               <= getRiskCaps(CapsOfWindow(assetState[a].lastWindowId)).maxOpenOrders

\* C21 happens: the ladder was cut by the open-order cap, which is reached
C21_Witness ==
    /\ assetState["BTC"].state = "LOCKING"
    /\ assetState["BTC"].ladderDone
    /\ OpenOrdersOf("BTC") = 3
    /\ getRiskCaps(CapsOfWindow(assetState["BTC"].lastWindowId)).maxOpenOrders = 3

(***************************************************************************)
(* The worker with one asset at the end of its windows                     *)
(***************************************************************************)
InputsEndgame ==
    [universe |-> <<"BTC">>, forms |-> {"good"}, mayBeAbsent |-> FALSE,
     advances |-> {2}, remember |-> FALSE,
     caps |-> {rc \in CapsInputs : rc.max_shares_per_asset = 0},
     remainings |-> {400, 10},
     prices |-> {pf \in PriceFetches : pf.yes \in {70, 5}},
     books |-> {bf \in BookFetches : bf.threw},
     market |-> {mf \in MarketFetches : ~mf.threw}]

ReadOrdersEndgame == ReadOrders(InputsEndgame)

ProcessAssetEndgame == ProcessAsset(InputsEndgame)

NextEndgame == ReadOrdersEndgame \/ ProcessAssetEndgame \/ FinishTick

SpecEndgame == Init /\ [][NextEndgame]_vars

\* C22: an asset that is in LOCKING when a call of its window reads a remaining
\* time of at most ENDGAME_SECONDS is in ENDGAME after the call, without having
\* been LOCKED.
C22_DirectEndgame ==
    [][\A a \in AssetSet :
         (SameWindowTick(a) /\ assetState[a].state = "LOCKING"
            /\ packet.window.remaining_sec <= ENDGAME_SECONDS)
               => assetState'[a].state = "ENDGAME"
      ]_vars

\* the case of C22: BTC was in LOCKING, was called with 10 seconds left and is still
\* in LOCKING, unlocked
C22_Witness ==
    /\ call.asset = "BTC" /\ call.from = "LOCKING" /\ ~call.isNew
    /\ pc = "loop" /\ packet.window.remaining_sec <= ENDGAME_SECONDS
    /\ assetState["BTC"].state = "LOCKING"
    /\ ~assetState["BTC"].lockDetector.locked

\* every step that takes an asset into ENDGAME finds it in LOCKED
C22_OnlyFromLocked ==
    [][\A a \in AssetSet :
         (assetState[a].state # "ENDGAME" /\ assetState'[a].state = "ENDGAME")
            => (assetState[a].state = "LOCKED" /\ ~call'.isNew)
      ]_vars

\* the deficit of the side that leads after the call of the step
LeaderDeficit(a) ==
    LET analysis == analyzePosition(assetState[a].position)
    IN  IF LeaderTracker_getLeader(assetState'[a].leaderTracker) = "YES"
          THEN analysis.yesDeficit ELSE analysis.noDeficit

\* the price of the side that leads after the call of the step
LeaderPrice(a) ==
    IF LeaderTracker_getLeader(assetState'[a].leaderTracker) = "YES"
      THEN call'.priceYes ELSE call'.priceNo

InputsRecovery ==
    [universe |-> <<"BTC">>, forms |-> {"good"}, mayBeAbsent |-> FALSE,
     advances |-> {2}, remember |-> FALSE,
     caps |-> {rc \in CapsInputs : rc.max_shares_per_asset = 0},
     remainings |-> {400},
     prices |-> {pf \in PriceFetches : pf.yes = 70}
                   \cup {[threw |-> FALSE, yes |-> 1, no |-> 100]},
     books |-> {bf \in BookFetches : bf.threw},
     market |-> {mf \in MarketFetches : ~mf.threw}]

ReadOrdersRecovery == ReadOrders(InputsRecovery)

ProcessAssetRecovery == ProcessAsset(InputsRecovery)

NextRecovery == ReadOrdersRecovery \/ ProcessAssetRecovery \/ FinishTick

SpecRecovery == Init /\ [][NextRecovery]_vars

\* C24: a call in the same window that finds the asset in RECOVERY with the price of
\* the recovery side >= 1 and its deficit > 0 computes no finite share count
\* (Infinity), submits no order, leaves the exchange and the position alone and
\* returns the asset to LOCKING.
C24_NoRecoveryAtOne ==
    [][\A a \in AssetSet :
         (SameWindowTick(a) /\ assetState[a].state = "RECOVERY") =>
            LET p == RecoveryPlan(assetState[a], CallContext(a))
            IN  (p.price >= 100 /\ p.deficit > 0) =>
                   /\ p.sharesNeeded = Infinity
                   /\ call'.log = << >>
                   /\ exchange' = exchange
                   /\ assetState'[a].position = assetState[a].position
                   /\ assetState'[a].state = "LOCKING"
      ]_vars

\* C24 happens: BTC, short 6.00 on NO, was called in RECOVERY with NO at 1.00, sent
\* nothing and is back in LOCKING
C24_Witness ==
    /\ call.asset = "BTC" /\ call.from = "RECOVERY" /\ ~call.isNew
    /\ call.priceNo = 100
    /\ analyzePosition(assetState["BTC"].position).recoverySide = "NO"
    /\ analyzePosition(assetState["BTC"].position).noDeficit > 0
    /\ call.log = << >>
    /\ assetState["BTC"].state = "LOCKING"

\* what the exchange holds for the token of a side of the asset's current window
ExchangePosition(a, side) ==
    LET token == Token(a, assetState[a].lastWindowId, side)
    IN  IF token \in DOMAIN exchange.positions THEN exchange.positions[token]
        ELSE [size |-> 0, cost |-> 0]

\* C25: the tracked position of an asset agrees with what the exchange holds for
\* the tokens of the asset's window: per side the tracked shares are the exchange's
\* size and the tracked cost is the exchange's cost (tracked costs are in cents, the
\* exchange's in hundredths of a cent).
C25_PositionAgrees ==
    \A a \in AssetSet :
        LET p == assetState[a].position
        IN  /\ p.yesShares = ExchangePosition(a, "YES").size
            /\ p.noShares = ExchangePosition(a, "NO").size
            /\ p.yesCost * 100 = ExchangePosition(a, "YES").cost
            /\ p.noCost * 100 = ExchangePosition(a, "NO").cost

\* the shares agree
C25_SharesAgree ==
    \A a \in AssetSet :
        /\ assetState[a].position.yesShares = ExchangePosition(a, "YES").size
        /\ assetState[a].position.noShares = ExchangePosition(a, "NO").size

\* the exchange's cost is the tracked cost plus the taker fee
C25_CostWithFee ==
    \A a \in AssetSet :
        /\ assetState[a].position.yesCost * (100 + TAKER_FEE_PCT)
              = ExchangePosition(a, "YES").cost
        /\ assetState[a].position.noCost * (100 + TAKER_FEE_PCT)
              = ExchangePosition(a, "NO").cost

\* the case of C25: the entry of BTC was filled, 10 YES at 0.60: the worker tracks a
\* cost of 6.00, the exchange one of 6.12
C25_Witness ==
    /\ call.asset = "BTC" /\ call.from = "ENTRY"
    /\ assetState["BTC"].position.yesShares = ENTRY_SIZE
    /\ assetState["BTC"].position.yesCost = 600
    /\ ExchangePosition("BTC", "YES").size = ENTRY_SIZE
    /\ ExchangePosition("BTC", "YES").cost = 61200

\* the entry of the processAsset call of the step carries both token ids
HasBothTokens(a) == packet.assets[idx].up /\ packet.assets[idx].down

\* C26: after a call whose orders entry does not carry token ids for both outcomes
\* the asset is IDLE, and the call submits no order.
C26_ArmedNeedsTokens ==
    [][\A a \in AssetSet :
         (TickOf(a) /\ ~call'.threw /\ ~HasBothTokens(a)) =>
            /\ assetState'[a].state = "IDLE"
            /\ call'.log = << >>
      ]_vars

\* a call whose entry carries no token id submits no order
C26_NoOrderWithoutTokens ==
    [][\A a \in AssetSet :
         (TickOf(a) /\ ~call'.threw /\ ~HasBothTokens(a)) => call'.log = << >>
      ]_vars

\* the case of C26: BTC has no token ids in its window, was reset by the first call
\* of the window and has left IDLE
C26_Witness ==
    /\ pc = "loop" /\ call.asset = "BTC" /\ call.isNew /\ ~call.threw
    /\ ~packet.assets[idx - 1].up /\ ~packet.assets[idx - 1].down
    /\ assetState["BTC"].state \in {"ARMED", "ENTRY"}
    /\ call.log = << >>

(***************************************************************************)
(* The worker with one asset whose ticks are 90 or 180 seconds apart       *)
(***************************************************************************)
InputsObi ==
    [universe |-> <<"BTC">>, forms |-> {"good"}, mayBeAbsent |-> FALSE,
     advances |-> {1, 2}, remember |-> FALSE,
     caps |-> {rc \in CapsInputs : rc.max_shares_per_asset = 0},
     remainings |-> {850, 400},
     prices |-> {pf \in PriceFetches : pf.yes \in {70, 5}},
     books |-> BookFetches,
     market |-> {mf \in MarketFetches : mf.price = 30}]

ReadOrdersObi == ReadOrders(InputsObi)

ProcessAssetObi == ProcessAsset(InputsObi)

NextObi == ReadOrdersObi \/ ProcessAssetObi \/ FinishTick

SpecObi == Init /\ [][NextObi]_vars

\* the samples the OBI calculator holds, of the three rolling averages
ObiSamples(calc) ==
    {calc.obiYes[i] : i \in DOMAIN calc.obiYes}
       \cup {calc.obiNo[i] : i \in DOMAIN calc.obiNo}
       \cup {calc.obiCombined[i] : i \in DOMAIN calc.obiCombined}

\* C27: after the first call of a new window the OBI calculator of the asset holds
\* no sample taken before that call: every sample it holds has age 0.  (The ticks
\* are at least one time unit apart, so a sample of an earlier tick has age >= 1.)
C27_ObiReset ==
    [][\A a \in AssetSet :
         (TickOf(a) /\ call'.isNew /\ ~call'.threw) =>
            \A x \in ObiSamples(assetState'[a].obiCalculator) : x.age = 0
      ]_vars

\* the case of C27: the first call of window 2 was made 90 seconds after the last
\* call of window 1, the asset is reset to ARMED or has gone on to ENTRY, and its
\* rolling YES average still holds the sample of window 1
C27_Witness ==
    /\ call.asset = "BTC" /\ call.isNew /\ call.from = "ARMED"
    /\ assetState["BTC"].lastWindowId = 2
    /\ Len(assetState["BTC"].obiCalculator.obiYes) = 2
    /\ assetState["BTC"].obiCalculator.obiYes[1].age = 1
    /\ assetState["BTC"].obiCalculator.obiYes[2].age = 0

\* the step is a resetForNewWindow() call of the tracker driven on its own
ResetStep == trkCalls.hist # << >> /\ trkCalls'.hist = << >>

\* the step is the n-th update() call after a resetForNewWindow()
UpdateAfterReset(n) ==
    /\ Len(trkCalls.hist) = n - 1
    /\ Len(trkCalls'.hist) = n
    /\ trkCalls.first # Null
    /\ trkCalls'.hist[1].leaderBefore # Null

\* C28: resetForNewWindow() sets totalFlips and the rolling flip count to 0, clears
\* the pending candidate and leaves currentLeader; the first update() after it
\* starts from the kept leader: an observation opposite to it is not adopted and
\* returns flipped = false, leaving the observed side pending; a second observation
\* of that side in a row confirms the flip, the first one of the new count.
C28_ResetKeepsLeader ==
    [][/\ ResetStep =>
             /\ trk'.totalFlips = 0
             /\ RC_getCount(trk'.flipCounter) = 0
             /\ trk'.pendingFlip = Null
             /\ trk'.pendingFlipCount = 0
             /\ trk'.currentLeader = trk.currentLeader
             /\ trk'.currentLeader # Null
       /\ UpdateAfterReset(1) =>
             LET c == trkCalls'.hist[1]
             IN  /\ c.leaderBefore = trkCalls.first
                 /\ c.pendingBefore = Null
                 /\ ~c.flipped
                 /\ c.leader = c.leaderBefore
                 /\ c.totalFlips = 0
                 /\ c.opposite => c.pendingAfter = c.obs
       /\ (UpdateAfterReset(2) /\ trkCalls.hist[1].opposite) =>
             LET c == trkCalls'.hist[1]
                 d == trkCalls'.hist[2]
             IN  /\ d.flipped <=> d.obs = c.obs
                 /\ d.flipped => (d.leader = d.obs /\ d.totalFlips = 1)
      ]_vars

\* C28 happens: after a reset that kept the leader, two observations of the other
\* side were made in a row; the first left the leader, the second confirmed the flip
C28_Witness ==
    /\ Len(trkCalls.hist) = 2
    /\ trkCalls.first # Null
    /\ trkCalls.hist[1].leaderBefore = trkCalls.first
    /\ trkCalls.hist[1].opposite /\ ~trkCalls.hist[1].flipped
    /\ trkCalls.hist[2].flipped
    /\ trk.currentLeader # trkCalls.first
    /\ trk.totalFlips = 1

\* C29: checkFlips falls in exactly one of three cases: flipCount >= 2 with no
\* shares fails with mode SKIP; otherwise flipCount >= 3 with shares > 0 passes with
\* mode RECOVERY; every other input, flipCount = 2 with shares > 0 among them,
\* passes with mode NORMAL.
C29_CheckFlips ==
    guardCall.made =>
       LET flipCount == guardCall.in.flipCount
           shares == guardCall.in.shares
           r == guardCall.out.results.flips
           skip == flipCount >= 2 /\ shares = 0
           recovery == ~skip /\ flipCount >= 3 /\ shares > 0
       IN  /\ skip => (~r.passed /\ r.mode = "SKIP")
           /\ recovery => (r.passed /\ r.mode = "RECOVERY")
           /\ (~skip /\ ~recovery) => (r.passed /\ r.mode = "NORMAL")
           /\ (flipCount = 2 /\ shares > 0) => (r.passed /\ r.mode = "NORMAL")
           /\ r.mode \in {"SKIP", "RECOVERY", "NORMAL"}

\* C29 happens: two flips with shares held passed the check in mode NORMAL
C29_Witness ==
    /\ guardCall.made
    /\ guardCall.in.flipCount = 2 /\ guardCall.in.shares > 0
    /\ guardCall.out.results.flips.passed
    /\ guardCall.out.results.flips.mode = "NORMAL"

(***************************************************************************)
(* The price cache of a ShadowExchange driven on its own                   *)
(***************************************************************************)
\* the cache keys `${tokenId}-${side}` of two tokens bought
QuoteKeys == {<<Token("BTC", 1, "YES"), "BUY">>, <<Token("BTC", 1, "NO"), "BUY">>}

\* what fetchClobPrice returns to fetchRealPrice
QuoteFetches == {mf \in MarketFetches : mf.threw \/ mf.price = 30}
                   \cup {[threw |-> FALSE, price |-> 0]}

\* how far the clock moves between two calls, in seconds
QuoteAdvances == {1, 4}

\* Date.now() moves on
QuoteClock ==
    /\ \E d \in QuoteAdvances :
         /\ clock + d <= MaxClock
         /\ clock' = clock + d
    /\ UNCHANGED <<quotes, quoteLog, workerVars, guardCall, capCall, lockVars, leaderVars,
                   streamVars>>

\* one call of fetchRealPrice(tokenId, side)
FetchQuote ==
    /\ \E key \in QuoteKeys, fetch \in QuoteFetches :
         \E r \in {fetchRealPriceAt(quotes, clock, key, fetch)} :
            LET stored == ~r.hit /\ ~fetch.threw
                storedAt == IF stored THEN Put(quoteLog.storedAt, key, clock)
                            ELSE quoteLog.storedAt
            IN  /\ quotes' = r.q
                /\ quoteLog' =
                     [storedAt |-> storedAt,
                      last |-> [made |-> TRUE, key |-> key, hit |-> r.hit, price |-> r.price,
                                age |-> IF key \in DOMAIN storedAt
                                          THEN clock - storedAt[key] ELSE 0,
                                sinceLastFetch |-> clock - quotes.lastPriceFetch]]
    /\ UNCHANGED <<clock, workerVars, guardCall, capCall, lockVars, leaderVars, streamVars>>

NextQuotes == QuoteClock \/ FetchQuote

SpecQuotes == Init /\ [][NextQuotes]_vars

\* C30: a price returned from the cache was stored for its key less than 5 seconds
\* before the call that returns it.
C30_CacheFiveSeconds ==
    quoteLog.last.hit => quoteLog.last.age < 5

\* a price is returned from the cache only within 5 seconds of the last fetch that
\* stored an entry, of whatever key
C30_FreshByLastFetch ==
    quoteLog.last.hit => quoteLog.last.sinceLastFetch < PRICE_CACHE_SEC

\* the case of C30: a price stored 8 seconds earlier was returned from the cache,
\* 4 seconds after a fetch for the other key
C30_Witness ==
    /\ quoteLog.last.hit
    /\ quoteLog.last.age = 8
    /\ quoteLog.last.sinceLastFetch = 4
    /\ \E k \in DOMAIN quoteLog.storedAt :
          k # quoteLog.last.key /\ quoteLog.storedAt[k] = quotes.lastPriceFetch

\* C31: in every state between two processAsset calls the lock detector of an asset
\* is locked iff the asset is in LOCKED or ENDGAME.
C31_LockedIffState ==
    \A a \in AssetSet :
        assetState[a].lockDetector.locked
           <=> assetState[a].state \in {"LOCKED", "ENDGAME"}

\* C31 happens: BTC became LOCKED in a call that found it in LOCKING, and its
\* detector is locked
C31_Witness ==
    /\ call.asset = "BTC" /\ call.from = "LOCKING"
    /\ assetState["BTC"].state = "LOCKED"
    /\ assetState["BTC"].lockDetector.locked

\* C32: no order is submitted from ENDGAME.  After every step, an asset in ENDGAME
\* holds the position its lock detector recorded when it locked, that position is a
\* dual lock with no deficit on either side, and no order of the window was
\* submitted from ENDGAME; a call that finds the asset in ENDGAME in the same window
\* submits nothing and leaves the exchange and the position alone.
C32_NoOrderInEndgame ==
    [][\A a \in AssetSet :
         /\ assetState'[a].state = "ENDGAME" =>
               LET s == assetState'[a]
                   analysis == analyzePosition(s.position)
               IN  /\ s.lockDetector.locked
                   /\ Len(s.lockDetector.lockDetails) = 1
                   /\ s.lockDetector.lockDetails[1].position = s.position
                   /\ analysis.isDualLock
                   /\ analysis.yesDeficit = 0 /\ analysis.noDeficit = 0
                   /\ winOrders'[a].TOPUP = 0
         /\ (SameWindowTick(a) /\ assetState[a].state = "ENDGAME") =>
               /\ call'.log = << >>
               /\ exchange' = exchange
               /\ assetState'[a].position = assetState[a].position
      ]_vars

\* C32 happens: BTC was called in ENDGAME with its leader at 0.92 or more in the
\* last seconds of the window, holding shares on both sides
C32_Witness ==
    /\ call.asset = "BTC" /\ call.from = "ENDGAME" /\ ~call.isNew /\ ~call.threw
    /\ assetState["BTC"].state = "ENDGAME"
    /\ assetState["BTC"].position.yesShares > 0
    /\ assetState["BTC"].position.noShares > 0
    /\ \/ (LeaderTracker_getLeader(assetState["BTC"].leaderTracker) = "YES"
             /\ call.priceYes >= ENDGAME_PRICE)
       \/ (LeaderTracker_getLeader(assetState["BTC"].leaderTracker) = "NO"
             /\ call.priceNo >= ENDGAME_PRICE)

\* the flip counts checkFlips is asked about
FlipCountsAsked == 0..(FLIP_RECOVERY_COUNT + 1)

\* C33: after every step an asset in ARMED has an all-zero position, so checkFlips
\* returns mode RECOVERY for it at no flip count; a call that dispatches to
\* handleArmed never leaves the asset in RECOVERY; and a call that puts the asset
\* into RECOVERY dispatched to handleLocking.
C33_ArmedIsFlat ==
    [][\A a \in AssetSet :
         /\ assetState'[a].state = "ARMED" =>
               /\ assetState'[a].position = ZeroPosition
               /\ \A fc \in FlipCountsAsked :
                     checkFlips(fc, assetState'[a].position.yesShares
                                       + assetState'[a].position.noShares).mode
                        # "RECOVERY"
         /\ (TickOf(a) /\ call'.from = "ARMED") => assetState'[a].state # "RECOVERY"
         /\ (TickOf(a) /\ assetState'[a].state = "RECOVERY"
               /\ (assetState[a].state # "RECOVERY" \/ call'.isNew))
              => call'.from = "LOCKING" /\ ~call'.isNew
      ]_vars

\* C33 happens: BTC entered RECOVERY in a call that found it in LOCKING, after it
\* had been through ARMED in this window with a flat position
C33_Witness ==
    /\ call.asset = "BTC" /\ call.from = "LOCKING" /\ ~call.isNew
    /\ assetState["BTC"].state = "RECOVERY"
    /\ assetState["BTC"].position # ZeroPosition

(***************************************************************************)
(* The worker with one asset and caps that are fixed during a window: a    *)
(* share cap and a notional cap just above what an entry and one recovery  *)
(* buy add up to in odd windows, a share cap below the entry size in even  *)
(* windows                                                                 *)
(***************************************************************************)
TightCapsOfWindow(w) ==
    IF w % 2 = 1
      THEN [max_shares_per_asset |-> 21, max_notional_usd_per_asset |-> 930,
            max_open_orders_per_asset |-> 0]
      ELSE [max_shares_per_asset |-> 5, max_notional_usd_per_asset |-> 0,
            max_open_orders_per_asset |-> 0]

InputsTight ==
    [universe |-> <<"BTC">>, forms |-> {"good"}, mayBeAbsent |-> FALSE,
     advances |-> {2}, remember |-> FALSE,
     caps |-> {TightCapsOfWindow(w) : w \in 1..MaxWindow},
     remainings |-> {400},
     prices |-> {pf \in PriceFetches : pf.yes \in {70, 30}},
     books |-> {bf \in BookFetches : bf.threw},
     market |-> {mf \in MarketFetches : ~mf.threw}]

ReadOrdersTight ==
    /\ ReadOrders(InputsTight)
    /\ packet'.risk_caps = TightCapsOfWindow(packet'.window.id)

ProcessAssetTight == ProcessAsset(InputsTight)

NextTight == ReadOrdersTight \/ ProcessAssetTight \/ FinishTick

SpecTight == Init /\ [][NextTight]_vars

\* the caps of the window the asset was last processed in
CapsOfAsset(a) == getRiskCaps(TightCapsOfWindow(assetState[a].lastWindowId))

\* C34: with caps that are fixed during a window, the tracked position of an asset
\* that was processed in a window holds at most caps.maxShares shares and cost at
\* most caps.maxNotional, the caps being those of that window.
C34_PositionWithinCaps ==
    \A a \in AssetSet :
        assetState[a].lastWindowId # 0 =>
            LET p == assetState[a].position
            IN  /\ p.yesShares + p.noShares <= CapsOfAsset(a).maxShares
                /\ p.yesCost + p.noCost <= CapsOfAsset(a).maxNotional

\* C34 happens: after an entry fill and a recovery fill BTC holds 20 shares under a
\* share cap of 21
C34_Witness ==
    /\ assetState["BTC"].lastWindowId # 0
    /\ CapsOfAsset("BTC").maxShares = 21
    /\ assetState["BTC"].position.yesShares + assetState["BTC"].position.noShares = 20
    /\ assetState["BTC"].position.yesCost + assetState["BTC"].position.noCost > 0

\* the total size of the open GTC orders the exchange holds for the tokens of the
\* asset's current window
OpenGtcSize(a) ==
    LET tokens == {Token(a, assetState[a].lastWindowId, side) : side \in {"YES", "NO"}}
        open == SelectSeq(exchange.orders, LAMBDA o : o.type = "GTC" /\ o.tokenId \in tokens)
    IN  SumSeq([i \in DOMAIN open |-> open[i].size])

\* C35: with caps that are fixed during a window, the shares an asset holds plus the
\* total size of its open GTC ladder orders for the current window is at most
\* caps.maxShares.
C35_ExposureWithinCap ==
    \A a \in AssetSet :
        assetState[a].lastWindowId # 0 =>
            assetState[a].position.yesShares + assetState[a].position.noShares
               + OpenGtcSize(a) <= CapsOfAsset(a).maxShares

\* C35 happens: BTC holds its entry of 10 shares under a share cap of 21 and the
\* whole ladder, 25 shares, is resting on the exchange
C35_Witness ==
    /\ assetState["BTC"].state = "LOCKING"
    /\ assetState["BTC"].ladderDone
    /\ CapsOfAsset("BTC").maxShares = 21
    /\ assetState["BTC"].position.yesShares + assetState["BTC"].position.noShares
          = ENTRY_SIZE
    /\ OpenGtcSize("BTC") = Len(LADDER_LEVELS) * LADDER_SIZE

(***************************************************************************)
(* The worker with one asset when one of the two order books may be        *)
(* missing                                                                 *)
(***************************************************************************)
\* the YES book arrives, the NO book is null
OneBookFetch ==
    [threw |-> FALSE, yes |-> [ok |-> TRUE, bids |-> <<100>>, asks |-> <<100>>],
                      no |-> NoBook]

InputsBooks ==
    [universe |-> <<"BTC">>, forms |-> {"good"}, mayBeAbsent |-> FALSE,
     advances |-> {1, 2}, remember |-> FALSE,
     caps |-> {rc \in CapsInputs : rc.max_shares_per_asset = 0},
     remainings |-> {850, 400},
     prices |-> {pf \in PriceFetches : pf.yes \in {70, 5}},
     books |-> BookFetches \cup {OneBookFetch},
     market |-> {mf \in MarketFetches : mf.price = 30}]

ReadOrdersBooks == ReadOrders(InputsBooks)

ProcessAssetBooks == ProcessAsset(InputsBooks)

NextBooks == ReadOrdersBooks \/ ProcessAssetBooks \/ FinishTick

SpecBooks == Init /\ [][NextBooks]_vars

\* the samples of a rolling average that were added by the last call: the ticks are
\* at least one time unit apart, so exactly these have age 0
NewSamples(q) == Cardinality({i \in DOMAIN q : q[i].age = 0})

\* C36: a processAsset call, which calls updateOBIFromMarket once, adds at most one
\* sample to the rolling YES average and at most one to the rolling NO average.
C36_OneSamplePerSide ==
    [][\A a \in AssetSet :
         (TickOf(a) /\ ~call'.threw) =>
            /\ NewSamples(assetState'[a].obiCalculator.obiYes) <= 1
            /\ NewSamples(assetState'[a].obiCalculator.obiNo) <= 1
      ]_vars

\* the case of C36: after one call the rolling YES average holds two new samples,
\* the order-book imbalance 0 and the price-based imbalance, and the rolling NO
\* average holds one
C36_Witness ==
    /\ call.asset = "BTC" /\ ~call.threw
    /\ NewSamples(assetState["BTC"].obiCalculator.obiYes) = 2
    /\ NewSamples(assetState["BTC"].obiCalculator.obiNo) = 1

(***************************************************************************)
(* The worker with one asset over many windows: YES leads at 0.70 and the  *)
(* exchange's own price fetch gives 0.60, so that every window's entry     *)
(* fills for 6.12 with the fee                                             *)
(***************************************************************************)
\* the windows followed: the starting balance pays for 16 entries
ManyWindows == 17

InputsLong ==
    [universe |-> <<"BTC">>, forms |-> {"good"}, mayBeAbsent |-> FALSE,
     advances |-> {2}, remember |-> FALSE,
     caps |-> {rc \in CapsInputs : rc.max_shares_per_asset = 0},
     remainings |-> {400},
     prices |-> {pf \in PriceFetches : pf.yes = 70},
     books |-> {bf \in BookFetches : bf.threw},
     market |-> {mf \in MarketFetches : mf.price = 60}]

\* the wall clock stays in a window until the orders of the asset's cycle were
\* submitted (the entry, and the recovery orders that are followed), and is in the
\* next window at the tick after
LongWindows ==
    LET all == NextWindowsUpTo(wallWindow, InputsLong.remainings, ManyWindows)
        cycleDone == wallWindow.id = 0 \/ winOrders["BTC"].IOC >= MaxIOC
    IN  {w \in all : (w.id # wallWindow.id) <=> cycleDone}

ReadOrdersLong == ReadOrdersAmong(InputsLong, LongWindows)

ProcessAssetLong == ProcessAsset(InputsLong)

NextLong == ReadOrdersLong \/ ProcessAssetLong \/ FinishTick

SpecLong == Init /\ [][NextLong]_vars

\* C37: the balance of the exchange is never negative.
C37_BalanceNotNegative == exchange.balance >= 0

\* the case of C37: an entry was filled in a call although the balance before it
\* was less than the fill cost, and the balance is below zero after it
C37_Witness ==
    /\ call.asset = "BTC" /\ call.from = "ENTRY"
    /\ Len(call.log) = 1 /\ call.log[1].type = "FOK"
    /\ assetState["BTC"].position.yesShares = ENTRY_SIZE
    /\ exchange.balance < 0

(***************************************************************************)
(* The stream driven on its own                                            *)
(***************************************************************************)
\* a step of the stream: op is what ran, socket the socket whose event it was
StreamStep(op, id, next) ==
    /\ Len(next.sockets) <= MaxSockets
    /\ next.timers <= MaxTimers
    /\ stream' = next
    /\ streamLog' = [op |-> op, socket |-> id, current |-> stream.ws,
                     closedBefore |-> stream.closed]
    /\ UNCHANGED <<workerVars, gateVars, lockVars, leaderVars>>

\* the stream after an event of socket id ran scheduleReconnect
AfterEvent(id, phase, errored) ==
    LET emitted == [stream EXCEPT !.sockets[id].phase = phase,
                                  !.sockets[id].errored = errored]
        next == scheduleReconnect(emitted)
    IN  IF next.timers > emitted.timers
          THEN [next EXCEPT !.sockets[id].scheduled = @ + 1]
          ELSE next

StreamConnect == StreamStep("connect", 0, connect(stream))

StreamSubscribe == StreamStep("subscribe", 0, subscribe(stream))

StreamClose == StreamStep("close", 0, close(stream))

TimerFires ==
    /\ stream.timers > 0
    /\ StreamStep("timer", 0, connect([stream EXCEPT !.timers = @ - 1]))

SocketOpen ==
    \E id \in DOMAIN stream.sockets :
        /\ stream.sockets[id].phase = "CONNECTING"
        /\ StreamStep("open", id, onOpen([stream EXCEPT !.sockets[id].phase = "OPEN"]))

\* 'error': the connection failed, or the socket was ended before it opened
SocketError ==
    \E id \in DOMAIN stream.sockets :
        /\ stream.sockets[id].phase \in {"CONNECTING", "OPEN", "ABORTED"}
        /\ ~stream.sockets[id].errored
        /\ StreamStep("error", id, AfterEvent(id, "CLOSING", TRUE))

\* 'close': the last event of a socket
SocketClose ==
    \E id \in DOMAIN stream.sockets :
        /\ stream.sockets[id].phase \in {"OPEN", "CLOSING"}
        /\ StreamStep("close event", id, AfterEvent(id, "GONE", stream.sockets[id].errored))

NextStream ==
    \/ StreamConnect \/ StreamSubscribe \/ StreamClose \/ TimerFires
    \/ SocketOpen \/ SocketError \/ SocketClose

SpecStream == Init /\ [][NextStream]_vars

\* C38: once close() has run the stream stays closed, this.ws stays null and no
\* WebSocket is created any more, whatever runs afterwards: a pending reconnect
\* timer, a late 'close' or 'error' event, connect() or subscribe().
C38_NoSocketAfterClose ==
    [][stream.closed =>
          /\ stream'.closed
          /\ stream'.ws = 0
          /\ Len(stream'.sockets) = Len(stream.sockets)
      ]_vars

\* C38 happens: a reconnect timer that was pending at close() has fired on the
\* closed stream
C38_Witness ==
    /\ streamLog.op = "timer" /\ streamLog.closedBefore
    /\ stream.closed
    /\ Len(stream.sockets) >= 1

\* the step is an 'error' or 'close' event of socket id
EventOf(id) == streamLog'.op \in {"error", "close event"} /\ streamLog'.socket = id

\* C39: the events of one socket schedule at most one reconnect, and an event of a
\* socket that is no longer this.ws leaves the current socket alone: this.ws and
\* the state of its socket are as before the event.
C39_OneReconnectPerFailure ==
    [][\A id \in DOMAIN stream.sockets :
          EventOf(id) =>
             /\ stream'.sockets[id].scheduled <= 1
             /\ (stream.ws # 0 /\ stream.ws # id) =>
                   /\ stream'.ws = stream.ws
                   /\ stream'.sockets[stream.ws] = stream.sockets[stream.ws]
      ]_vars

\* the case of C39: the 'error' and the 'close' of one socket have each scheduled a
\* reconnect, and the delay has grown twice, from 500 to 1125
C39_Witness ==
    /\ Len(stream.sockets) = 1
    /\ stream.sockets[1].errored /\ stream.sockets[1].phase = "GONE"
    /\ stream.sockets[1].scheduled = 2
    /\ stream.timers = 2
    /\ stream.reconnectMs = 1125

\* the other case of C39: the 'close' of the first socket arrived when the second
\* socket was this.ws, and ended the second socket
C39_EndsCurrent ==
    /\ streamLog.op = "close event" /\ streamLog.socket = 1 /\ streamLog.current = 2
    /\ stream.ws = 0
    /\ stream.sockets[2].phase \in {"ABORTED", "CLOSING"}

\* what does hold of the delay: 'open' sets it to 500, and a step that schedules a
\* reconnect multiplies it by 1.5, rounded down and capped at 10000
C39_Backoff ==
    [][/\ streamLog'.op = "open" => stream'.reconnectMs = RECONNECT_START_MS
       /\ stream'.timers > stream.timers =>
             /\ stream'.timers = stream.timers + 1
             /\ stream'.reconnectMs
                  = Min(RECONNECT_CAP_MS, (stream.reconnectMs * 3) \div 2)
      ]_vars

\* C40: after every update() and resetForNewWindow() of a LeaderTracker the flip
\* count of the rolling window is at most totalFlips; a pending candidate, when
\* there is one, is the side opposite to currentLeader; and pendingFlipCount is 1
\* when a candidate is pending and 0 when none is.
C40_TrackerInvariant ==
    /\ RC_getCount(trk.flipCounter) <= trk.totalFlips
    /\ trk.pendingFlip # Null =>
          /\ trk.currentLeader \in {"YES", "NO"}
          /\ trk.pendingFlip = (IF trk.currentLeader = "YES" THEN "NO" ELSE "YES")
    /\ trk.pendingFlipCount = (IF trk.pendingFlip # Null THEN 1 ELSE 0)

\* C40 happens: after two confirmed flips, one of which has left the rolling window,
\* a candidate against the leader is pending
C40_Witness ==
    /\ trk.totalFlips = 2
    /\ RC_getCount(trk.flipCounter) = 1
    /\ trk.pendingFlip # Null
    /\ trk.pendingFlipCount = 1

====
